---- MODULE Spec2Model ----
(***************************************************************************)
(* A model of CheckDP (cmla-psu/checkdp): the CEGIS loop of core.run, the  *)
(* backend race of KLEE._async_run, the two-track type environment and the *)
(* transformer's fixed point and instrumentation, the cost accumulator,    *)
(* Template.related_inputs and the alignment-template generator.           *)
(* Each part has its own specification over its own variables; the other   *)
(* parts' variables are held at their idle values.                         *)
(***************************************************************************)
EXTENDS Integers, Sequences, FiniteSets, TLC

VARIABLES
    \* ---- core.run ----
    exceeds,                \* the program under analysis: exceeds[i][a] <=> cost of input i under alignment a > goal
    found_counterexamples,  \* core.py:10
    possible_alignments,    \* core.py:11
    suffix,                 \* core.py:14
    iterations,             \* core.py:15
    is_find_inputs,         \* core.py:17
    is_final_validate,      \* core.py:19
    is_jump_out,            \* core.py:21
    search_object,          \* core.py:23
    concretes,              \* core.py:25-27
    result,                 \* core.py:48
    returned,               \* what run returned: the list of core.py:66, or the counterexample of core.py:128
    output_dir_exists,      \* the executor's scratch directory (KLEE._output_dir)
    pc,                     \* position in run
    \* ---- KLEE._async_run ----
    proc,                   \* per backend: the state of its KLEE process
    task_done,              \* per backend: its communicate() task has finished
    klee_output,            \* per backend: what its process left in its stdout/stderr and output directory
    done,                   \* symex.py:106
    pending,                \* symex.py:106
    winner,                 \* symex.py:108, the backend of the popped task
    awaited,                \* the backends whose process.wait() of symex.py:117 has returned
    backend,                \* the Python variable `backend` (symex.py:94, 112, 121)
    extracted,              \* what the run read: [from |-> backend directory, content |-> output]
    kpc,                    \* position in _async_run
    \* ---- TypeSystem.merge ----
    env_a, env_b, env_c,    \* three type environments
    merge_out,              \* the environments the merges produced
    mpc,                    \* position of the merge runs
    \* ---- Transformer ----
    node,                   \* the statement (an if or a while) being transformed at loop level 0
    enable_shadow,          \* base.py:63
    t_pc,                   \* base.py:61, Transformer._pc
    before_pc,              \* base.py:275, 335
    type_system,            \* base.py:50, Transformer._type_system
    before_types,           \* base.py:279, 338
    fixed_types,            \* base.py:340, 345
    loop_level,             \* base.py:58
    branch_types,           \* base.py:284, 296, 363: true_types, false_types, after_visit
    inserted,               \* the statements _instrument produced, by the place they were inserted at
    tstep,                  \* position in visit_If / visit_While
    \* ---- the cost of the transformed function ----
    v_epsilon,              \* base.py:159
    sample_index,           \* base.py:161
    selector,               \* base.py:253, the value of SELECTOR_eta at the sampling point
    aligned_eta,            \* base.py:244, the aligned distance of the sample
    inverse_scale,          \* base.py:248-249, 1 / scale of the sample
    \* ---- Template.related_inputs ----
    heap,                   \* the dict objects
    original_inputs,        \* template.py:115, a reference
    related,                \* template.py:117, a reference
    rpc,                    \* position of related_inputs
    \* ---- RandomDistanceGenerator.generate_macros ----
    templates,              \* random_distance.py:50, per sample: conditions and variables
    inserted_macros,        \* random_distance.py:192 (inserted)
    alignment_array_types,  \* random_distance.py:192
    gpc,                    \* position of generate_macros
    \* ---- Preprocessor.process ----
    file_ast,               \* the parsed source file: its function definitions (preprocess.py:67)
    target_function,        \* preprocess.py:56
    processed,              \* what process returned or raised (preprocess.py:197)
    ppc,                    \* position of process
    \* ---- RandomDistanceGenerator.generate ----
    program,                \* the transformed function, its statements in the order the visitor reaches them
    final_types,            \* random_distance.py:42, the type environment the transformer ended with
    depends,                \* random_distance.py:44
    live_variable,          \* random_distance.py:47
    self_templates,         \* random_distance.py:50 (_templates)
    random_variables,       \* random_distance.py:51
    vpc,                    \* position of generate
    \* ---- main ----
    launcher,               \* how main was started: the console script of setup.py or python -m checkdp
    arguments,              \* __main__.py:72
    run_result,             \* __main__.py:129, is_alignment and the bad outputs
    output_index,           \* __main__.py:147, the bad output under validation
    final_bad_output,       \* __main__.py:142, 162: the index of the output, 0 for None
    raised_in,              \* the step of main an exception escaped from
    main_returned,          \* the value main returned
    exit_code,              \* the exit status of the process
    main_pc,                \* position in main
    \* ---- the search-mode driver of Template.fill ----
    operator,               \* template.py:162, 187, 250: the relation of a cost to the goal
    self_goal,              \* template.py:68, the value of the goal expression
    executions,             \* per concrete: what the transformed function does on it under the symbolic values of the path
    symbolic_cost,          \* template.py:144, 257-260
    costs,                  \* template.py:318, cost_0 .. cost_i of the calls made so far
    dpc,                    \* position in the driver
    \* ---- the transformed statements, executed ----
    memory,                 \* the values of the program variables and of their distance variables
    \* ---- the assumptions of an input search on one path of KLEE ----
    symbolic,               \* the values this path has for the symbolic query, its aligned distance and CHECKDP_index
    path,                   \* "start", "symbolic", "admitted" (every klee_assume held), "terminated"
    \* ---- the sample array: its declared size and the reads of the transformed function ----
    loops_around,           \* the while loops around the sampling statement, outermost first: [sized, trips]
    size,                   \* the value of the size parameter, which is the length of the query
    sample_array_size_loops,\* postprocess.py:16
    sample_array_size_constants,\* postprocess.py:17
    sample_array_size,      \* template.py:129, the length the driver declares the sample array with
    overrun,                \* a read of sample_array at an index outside the array has happened
    spc                     \* "start", "processed", "running", "returned"

cegisVars == <<exceeds, found_counterexamples, possible_alignments, suffix, iterations,
               is_find_inputs, is_final_validate, is_jump_out, search_object, concretes,
               result, returned, output_dir_exists, pc>>

kleeVars == <<proc, task_done, klee_output, done, pending, winner, awaited, backend, extracted, kpc>>

mergeVars == <<env_a, env_b, env_c, merge_out, mpc>>

transformVars == <<node, enable_shadow, t_pc, before_pc, type_system, before_types,
                   fixed_types, loop_level, branch_types, inserted, tstep>>

costVars == <<v_epsilon, sample_index, selector, aligned_eta, inverse_scale>>

relatedVars == <<heap, original_inputs, related, rpc>>

macroVars == <<templates, inserted_macros, alignment_array_types, gpc>>

preVars == <<file_ast, target_function, processed, ppc>>

genVars == <<program, final_types, depends, live_variable, self_templates, random_variables, vpc>>

mainVars == <<launcher, arguments, run_result, output_index, final_bad_output, raised_in,
              main_returned, exit_code, main_pc>>

driverVars == <<operator, self_goal, executions, symbolic_cost, costs, dpc>>

execVars == <<memory>>

assumeVars == <<symbolic, path>>

samplingVars == <<loops_around, size, sample_array_size_loops, sample_array_size_constants,
                  sample_array_size, overrun, spc>>

vars == <<cegisVars, kleeVars, mergeVars, transformVars, costVars, relatedVars, macroVars,
          preVars, genVars, mainVars, driverVars, execVars, assumeVars, samplingVars>>

notCegis == <<kleeVars, mergeVars, transformVars, costVars, relatedVars, macroVars, preVars,
              genVars, mainVars, driverVars, execVars, assumeVars, samplingVars>>
notKlee == <<cegisVars, mergeVars, transformVars, costVars, relatedVars, macroVars, preVars,
             genVars, mainVars, driverVars, execVars, assumeVars, samplingVars>>
notMerge == <<cegisVars, kleeVars, transformVars, costVars, relatedVars, macroVars, preVars,
              genVars, mainVars, driverVars, execVars, assumeVars, samplingVars>>
notTransform == <<cegisVars, kleeVars, mergeVars, costVars, relatedVars, macroVars, preVars,
                  genVars, mainVars, driverVars, execVars, assumeVars, samplingVars>>
notCost == <<cegisVars, kleeVars, mergeVars, transformVars, relatedVars, macroVars, preVars,
             genVars, mainVars, driverVars, execVars, assumeVars, samplingVars>>
notRelated == <<cegisVars, kleeVars, mergeVars, transformVars, costVars, macroVars, preVars,
                genVars, mainVars, driverVars, execVars, assumeVars, samplingVars>>
notMacro == <<cegisVars, kleeVars, mergeVars, transformVars, costVars, relatedVars, preVars,
              genVars, mainVars, driverVars, execVars, assumeVars, samplingVars>>
notPre == <<cegisVars, kleeVars, mergeVars, transformVars, costVars, relatedVars, macroVars,
            genVars, mainVars, driverVars, execVars, assumeVars, samplingVars>>
notGen == <<cegisVars, kleeVars, mergeVars, transformVars, costVars, relatedVars, macroVars,
            preVars, mainVars, driverVars, execVars, assumeVars, samplingVars>>
notMain == <<cegisVars, kleeVars, mergeVars, transformVars, costVars, relatedVars, macroVars,
             preVars, genVars, driverVars, execVars, assumeVars, samplingVars>>
notDriver == <<cegisVars, kleeVars, mergeVars, transformVars, costVars, relatedVars, macroVars,
               preVars, genVars, mainVars, execVars, assumeVars, samplingVars>>
notExec == <<cegisVars, kleeVars, mergeVars, transformVars, costVars, relatedVars, macroVars,
             preVars, genVars, mainVars, driverVars, assumeVars, samplingVars>>
notAssume == <<cegisVars, kleeVars, mergeVars, transformVars, costVars, relatedVars, macroVars,
               preVars, genVars, mainVars, driverVars, execVars, samplingVars>>
\* what the visit of one assignment and the run of its statements leave alone
notAssign == <<cegisVars, kleeVars, mergeVars, costVars, relatedVars, macroVars, preVars,
               genVars, mainVars, driverVars, assumeVars, samplingVars>>

-----------------------------------------------------------------------------
(* Bounds *)
NumInputs == 3
NumAlignments == 3
\* the number of distinct expression strings a track may hold besides "0" and "*"
NumExprs == 2
\* the largest number of statements (assignments, declarations, samplings, ifs, whiles)
\* inside the statement being transformed
MaxNodes == 2
\* the sampling points an execution passes, the largest distance of a sample and the
\* largest 1 / scale
MaxSamples == 3
MaxDistance == 2
MaxInverseScale == 2
\* the length of the query and the largest absolute value of an input
QuerySize == 2
MaxValue == 1
\* the samples of a program, the conditions and the variables of a template
MaxTemplates == 2
MaxConditions == 2
MaxVariables == 2
\* the items of a distance annotation, the clauses of a precondition annotation, the
\* functions of a file, the statements of a body after the annotations, the largest scale
MaxAnnotations == 4
MaxClauses == 3
MaxFunctions == 2
MaxBody == 2
MaxScale == 2
\* the statements of a transformed function the template generator acts on
MaxStatements == 5
\* the lines of a bad output, and the denominator of the probabilities of the validator
MaxOutputLines == 1
MaxProbability == 3
\* the largest int of the generated driver, and the concretes handed to Template.fill
IntMax == 3
MaxConcretes == 2
\* the loops around a sampling statement, the iterations of a loop over a constant and the
\* largest length of the query
MaxLoopDepth == 2
MaxTrips == 2
MaxSize == 3

-----------------------------------------------------------------------------
(* Each part at rest, for the specifications of the other parts *)

\* KLEE._async_run returns None when no path reaches the final assert.
None == -1

IdleCegis ==
    /\ exceeds = <<>>
    /\ found_counterexamples = <<>>
    /\ possible_alignments = <<>>
    /\ suffix = 0
    /\ iterations = 0
    /\ is_find_inputs = TRUE
    /\ is_final_validate = FALSE
    /\ is_jump_out = FALSE
    /\ search_object = "none"
    /\ concretes = <<>>
    /\ result = None
    /\ returned = <<>>
    /\ output_dir_exists = FALSE
    /\ pc = "idle"

IdleKlee ==
    /\ proc = <<>>
    /\ task_done = <<>>
    /\ klee_output = <<>>
    /\ done = {}
    /\ pending = {}
    /\ winner = "none"
    /\ awaited = {}
    /\ backend = "none"
    /\ extracted = <<>>
    /\ kpc = "idle"

NoMerges == [ab |-> <<>>, ba |-> <<>>, aa |-> <<>>, ab_c |-> <<>>, a_bc |-> <<>>,
             if_ab |-> <<>>, if_ba |-> <<>>]

IdleMerge ==
    /\ env_a = <<>> /\ env_b = <<>> /\ env_c = <<>>
    /\ merge_out = NoMerges
    /\ mpc = "idle"

NoTypes == <<>>
NoBranchTypes == [true_types |-> NoTypes, false_types |-> NoTypes, after_visit |-> NoTypes]
NoInserted ==
    [before_loop |-> {}, body_end |-> {}, true_top |-> {}, false_top |-> {}, true_end |-> {},
     false_end |-> {}]

\* no statement has been visited
NothingVisited ==
    /\ node = <<>>
    /\ t_pc = FALSE
    /\ before_pc = FALSE
    /\ type_system = NoTypes
    /\ before_types = NoTypes
    /\ fixed_types = NoTypes
    /\ loop_level = 0
    /\ branch_types = NoBranchTypes
    /\ inserted = NoInserted
    /\ tstep = "idle"

IdleTransform ==
    /\ enable_shadow = FALSE
    /\ NothingVisited

IdleCost ==
    /\ v_epsilon = 0
    /\ sample_index = 0
    /\ selector = "none"
    /\ aligned_eta = 0
    /\ inverse_scale = 0

IdleRelated ==
    /\ heap = <<>>
    /\ original_inputs = 0
    /\ related = 0
    /\ rpc = "idle"

IdleMacro ==
    /\ templates = <<>>
    /\ inserted_macros = <<>>
    /\ alignment_array_types = <<>>
    /\ gpc = "idle"

IdlePre ==
    /\ file_ast = <<>>
    /\ target_function = "None"
    /\ processed = <<>>
    /\ ppc = "idle"

IdleGen ==
    /\ program = <<>>
    /\ final_types = <<>>
    /\ depends = <<>>
    /\ live_variable = <<>>
    /\ self_templates = <<>>
    /\ random_variables = {}
    /\ vpc = "idle"

IdleMain ==
    /\ launcher = "none"
    /\ arguments = <<>>
    /\ run_result = <<>>
    /\ output_index = 0
    /\ final_bad_output = 0
    /\ raised_in = "none"
    /\ main_returned = "none"
    /\ exit_code = -1
    /\ main_pc = "idle"

IdleDriver ==
    /\ operator = "none"
    /\ self_goal = 0
    /\ executions = <<>>
    /\ symbolic_cost = <<>>
    /\ costs = <<>>
    /\ dpc = "idle"

IdleExec ==
    /\ memory = <<>>

IdleAssume ==
    /\ symbolic = <<>>
    /\ path = "idle"

IdleSampling ==
    /\ loops_around = <<>>
    /\ size = 0
    /\ sample_array_size_loops = 0
    /\ sample_array_size_constants = 0
    /\ sample_array_size = 0
    /\ overrun = FALSE
    /\ spc = "idle"

-----------------------------------------------------------------------------
(* core.run *)

\* The admissible inputs (query, its distance, samples) and the alignment search space.
Inputs == 1..NumInputs
Alignments == 0..(NumAlignments - 1)

\* Template.default_alignment: the all-zero alignment array.
default_alignment == 0

Last(s) == s[Len(s)]
Range(s) == {s[k] : k \in 1..Len(s)}

\* The driver of Template.fill nests one `if (cost_i OP goal)` per concrete around the
\* final klee_assert(0): OP is '>' when alignments are concrete (searching inputs) ...
InputModels(cs) == {i \in Inputs : \A k \in 1..Len(cs) : exceeds[i][cs[k]]}
\* ... and '<=' when inputs are concrete (searching alignments).
AlignmentModels(cs) == {a \in Alignments : \A k \in 1..Len(cs) : ~exceeds[cs[k]][a]}

\* a search that gives no answer when there is no model
KleeRunNoAnswer(find_inputs, cs) ==
    IF find_inputs THEN InputModels(cs) ELSE AlignmentModels(cs)

\* klee.run with an exact search: some model when one exists, None otherwise.
KleeRun(find_inputs, cs) ==
    LET models == IF find_inputs THEN InputModels(cs) ELSE AlignmentModels(cs)
    IN  IF models = {} THEN {None} ELSE models

\* Concretes without the narrowing of core.py:27
ConcretesNotNarrowed ==
    IF is_find_inputs THEN possible_alignments ELSE found_counterexamples

\* Concretes narrowed also while jumping out
ConcretesNarrowedJumpingOut ==
    LET all == IF is_find_inputs THEN possible_alignments ELSE found_counterexamples
    IN  IF is_final_validate \/ is_jump_out THEN <<Last(all)>> ELSE all

\* core.py:25-27
Concretes ==
    LET all == IF is_find_inputs THEN possible_alignments ELSE found_counterexamples
    IN  IF is_final_validate /\ ~is_jump_out THEN <<Last(all)>> ELSE all

\* the end of an iteration without the flip of core.py:93
EndIterationNoFlip(find_inputs) ==
    /\ is_find_inputs' = find_inputs
    /\ output_dir_exists' = FALSE

\* a list that keeps its last element
popNothing(list) == list

\* core.py:77, list.pop()
pop(list) == SubSeq(list, 1, Len(list) - 1)

\* the flag of core.py:89 left as it is
double_flipNot(find_inputs) == find_inputs

\* core.py:89: the flip inside the branch, which the flip of core.py:93 undoes
double_flip(find_inputs) == ~find_inputs

\* core.py:93-98, the end of an iteration that neither returns nor breaks
EndIteration(find_inputs) ==
    /\ is_find_inputs' = ~find_inputs
    /\ output_dir_exists' = FALSE

InitCegis ==
    /\ exceeds \in [Inputs -> [Alignments -> BOOLEAN]]
    /\ found_counterexamples = <<>>
    /\ possible_alignments = <<default_alignment>>
    /\ suffix = 0
    /\ iterations = 0
    /\ is_find_inputs = TRUE
    /\ is_final_validate = FALSE
    /\ is_jump_out = FALSE
    /\ search_object = "none"
    /\ concretes = <<>>
    /\ result = None
    /\ returned = <<>>
    /\ output_dir_exists = TRUE
    /\ pc = "loop"
    /\ IdleKlee /\ IdleMerge /\ IdleTransform /\ IdleCost /\ IdleRelated /\ IdleMacro /\ IdlePre /\ IdleGen /\ IdleMain /\ IdleDriver /\ IdleExec /\ IdleAssume /\ IdleSampling

\* core.py:23-48: choose the concretes, render and compile the driver, run the executor.
\* KLEE._async_run removes and re-creates the scratch directory before it starts.
Search ==
    /\ pc = "loop"
    /\ search_object' = IF is_find_inputs THEN "inputs" ELSE "alignments"
    /\ concretes' = Concretes
    /\ result' \in KleeRun(is_find_inputs, Concretes)
    /\ output_dir_exists' = TRUE
    /\ pc' = "result"
    /\ UNCHANGED <<exceeds, found_counterexamples, possible_alignments, suffix, iterations,
                   is_find_inputs, is_final_validate, is_jump_out, returned>>
    /\ UNCHANGED notCegis

\* core.py:45-48: clang rejects the driver (the scratch directory is untouched), or the
\* executor ends with a ValueError (it has re-created the directory by then).
SearchError ==
    /\ pc = "loop"
    /\ search_object' = IF is_find_inputs THEN "inputs" ELSE "alignments"
    /\ concretes' = Concretes
    /\ output_dir_exists' \in {output_dir_exists, TRUE}
    /\ pc' = "error"
    /\ UNCHANGED <<exceeds, found_counterexamples, possible_alignments, suffix, iterations,
                   is_find_inputs, is_final_validate, is_jump_out, result, returned>>
    /\ UNCHANGED notCegis

\* InputFound without line 61: is_jump_out keeps its value
InputFoundKeepsJumpOut ==
    /\ pc = "result" /\ result # None /\ is_find_inputs
    /\ iterations' = iterations + 1
    /\ found_counterexamples' = Append(found_counterexamples, result)
    /\ EndIteration(is_find_inputs)
    /\ suffix' = suffix + 1
    /\ pc' = "loop"
    /\ UNCHANGED <<exceeds, possible_alignments, is_final_validate, is_jump_out, search_object,
                   concretes, result, returned>>
    /\ UNCHANGED notCegis

\* core.py:56-61, 91-98
InputFound ==
    /\ pc = "result" /\ result # None /\ is_find_inputs
    /\ iterations' = iterations + 1
    /\ found_counterexamples' = Append(found_counterexamples, result)
    /\ is_jump_out' = FALSE
    /\ EndIteration(is_find_inputs)
    /\ suffix' = suffix + 1
    /\ pc' = "loop"
    /\ UNCHANGED <<exceeds, possible_alignments, is_final_validate, search_object,
                   concretes, result, returned>>
    /\ UNCHANGED notCegis

\* core.py:62-66
InputNone ==
    /\ pc = "result" /\ result = None /\ is_find_inputs
    /\ iterations' = iterations + 1
    /\ returned' = concretes
    /\ pc' = "proved"
    /\ UNCHANGED <<exceeds, found_counterexamples, possible_alignments, suffix,
                   is_find_inputs, is_final_validate, is_jump_out, search_object,
                   concretes, result, output_dir_exists>>
    /\ UNCHANGED notCegis

\* AlignmentFoundFinal with the flag flipped twice: the next iteration searches
\* alignments again
AlignmentFoundFinalSearchesAlignments ==
    /\ pc = "result" /\ result # None /\ ~is_find_inputs /\ is_final_validate
    /\ iterations' = iterations + 1
    /\ possible_alignments' = Append(possible_alignments, result)
    /\ found_counterexamples' = <<>>
    /\ is_final_validate' = FALSE
    /\ is_jump_out' = TRUE
    /\ EndIteration(double_flip(is_find_inputs))
    /\ suffix' = suffix + 1
    /\ pc' = "loop"
    /\ UNCHANGED <<exceeds, search_object, concretes, result, returned>>
    /\ UNCHANGED notCegis

\* core.py:67-74, 91-98
AlignmentFoundFinal ==
    /\ pc = "result" /\ result # None /\ ~is_find_inputs /\ is_final_validate
    /\ iterations' = iterations + 1
    /\ possible_alignments' = Append(possible_alignments, result)
    /\ found_counterexamples' = <<>>
    /\ is_final_validate' = FALSE
    /\ is_jump_out' = TRUE
    /\ EndIteration(is_find_inputs)
    /\ suffix' = suffix + 1
    /\ pc' = "loop"
    /\ UNCHANGED <<exceeds, search_object, concretes, result, returned>>
    /\ UNCHANGED notCegis

\* core.py:75-79, 91-98
AlignmentFound ==
    /\ pc = "result" /\ result # None /\ ~is_find_inputs /\ ~is_final_validate
    /\ iterations' = iterations + 1
    /\ possible_alignments' = Append(pop(possible_alignments), result)
    /\ EndIteration(is_find_inputs)
    /\ suffix' = suffix + 1
    /\ pc' = "loop"
    /\ UNCHANGED <<exceeds, found_counterexamples, is_final_validate, is_jump_out,
                   search_object, concretes, result, returned>>
    /\ UNCHANGED notCegis

\* core.py:80-83
AlignmentNoneFinal ==
    /\ pc = "result" /\ result = None /\ ~is_find_inputs /\ is_final_validate
    /\ iterations' = iterations + 1
    /\ pc' = "break"
    /\ UNCHANGED <<exceeds, found_counterexamples, possible_alignments, suffix,
                   is_find_inputs, is_final_validate, is_jump_out, search_object,
                   concretes, result, returned, output_dir_exists>>
    /\ UNCHANGED notCegis

\* core.py:84-98: the flag is flipped at line 89 and again at line 93
AlignmentNone ==
    /\ pc = "result" /\ result = None /\ ~is_find_inputs /\ ~is_final_validate
    /\ iterations' = iterations + 1
    /\ is_final_validate' = TRUE
    /\ EndIteration(double_flip(is_find_inputs))
    /\ suffix' = suffix + 1000 + 1
    /\ pc' = "loop"
    /\ UNCHANGED <<exceeds, found_counterexamples, possible_alignments, is_jump_out,
                   search_object, concretes, result, returned>>
    /\ UNCHANGED notCegis

\* core.py:100-128: the final counterexample and its two concrete runs
BadOutputs ==
    /\ pc = "break"
    /\ returned' = <<Last(found_counterexamples)>>
    /\ pc' = "counterexample"
    /\ UNCHANGED <<exceeds, found_counterexamples, possible_alignments, suffix, iterations,
                   is_find_inputs, is_final_validate, is_jump_out, search_object,
                   concretes, result, output_dir_exists>>
    /\ UNCHANGED notCegis

NextCegis ==
    \/ Search
    \/ SearchError
    \/ InputFound
    \/ InputNone
    \/ AlignmentFoundFinal
    \/ AlignmentFound
    \/ AlignmentNoneFinal
    \/ AlignmentNone
    \/ BadOutputs

-----------------------------------------------------------------------------
(* KLEE._async_run: two backends race, the first to complete wins *)

\* symex.py:67, the default backends, in launch order
Backends == <<"stp", "z3">>
BackendSet == {"stp", "z3"}

\* What a KLEE process that ran to its end leaves behind: a log with 'KLEE: done' and an
\* *.assert.err file, the log without such a file, or a log that lacks 'KLEE: done'.
Outcomes == {"assert", "clean", "crashed"}

\* ResultBackend without the rebinding of symex.py:121: `backend` keeps the value the
\* loop over the pending tasks left in it
ResultBackendOfLoop(popped, loop_backend) == loop_backend

\* symex.py:120-121, 133: the results are those of the popped task
ResultBackend(popped, loop_backend) == popped

InitKlee ==
    /\ proc = [b \in BackendSet |-> "none"]
    /\ task_done = [b \in BackendSet |-> FALSE]
    /\ klee_output = [b \in BackendSet |-> "empty"]
    /\ done = {}
    /\ pending = {}
    /\ winner = "none"
    /\ awaited = {}
    /\ backend = "none"
    /\ extracted = [from |-> "none", content |-> "empty"]
    /\ kpc = "launch"
    /\ IdleCegis /\ IdleMerge /\ IdleTransform /\ IdleCost /\ IdleRelated /\ IdleMacro /\ IdlePre /\ IdleGen /\ IdleMain /\ IdleDriver /\ IdleExec /\ IdleAssume /\ IdleSampling

\* symex.py:94-103: start the next backend's process and the task that communicates with it
Launch ==
    /\ kpc = "launch"
    /\ \E k \in 1..Len(Backends) :
          /\ proc[Backends[k]] = "none"
          /\ \A j \in 1..(k - 1) : proc[Backends[j]] # "none"
          /\ proc' = [proc EXCEPT ![Backends[k]] = "running"]
          /\ backend' = Backends[k]
          /\ kpc' = IF k = Len(Backends) THEN "wait" ELSE "launch"
    /\ UNCHANGED <<task_done, klee_output, done, pending, winner, awaited, extracted>>
    /\ UNCHANGED notKlee

\* A KLEE process ends on its own, at any time after its launch.
ProcessExit(b) ==
    /\ proc[b] = "running"
    /\ proc' = [proc EXCEPT ![b] = "exited"]
    /\ \E o \in Outcomes : klee_output' = [klee_output EXCEPT ![b] = o]
    /\ UNCHANGED <<task_done, done, pending, winner, awaited, backend, extracted, kpc>>
    /\ UNCHANGED notKlee

\* The task process.communicate() of symex.py:103 finishes once its process has ended and
\* been waited for (communicate awaits the process's exit).
TaskComplete(b) ==
    /\ proc[b] \in {"exited", "killed"}
    /\ ~task_done[b]
    /\ task_done' = [task_done EXCEPT ![b] = TRUE]
    /\ UNCHANGED <<proc, klee_output, done, pending, winner, awaited, backend, extracted, kpc>>
    /\ UNCHANGED notKlee

\* symex.py:106-108: asyncio.wait(FIRST_COMPLETED) resumes after at least one task has
\* finished and returns every task finished by then; done.pop() takes any one of them.
WaitReturns ==
    /\ kpc = "wait"
    /\ \E b \in BackendSet : task_done[b]
    /\ done' = {b \in BackendSet : task_done[b]}
    /\ pending' = {b \in BackendSet : ~task_done[b]}
    /\ \E w \in {b \in BackendSet : task_done[b]} : winner' = w
    /\ kpc' = "kill"
    /\ UNCHANGED <<proc, task_done, klee_output, awaited, backend, extracted>>
    /\ UNCHANGED notKlee

\* symex.py:111-117: kill a pending task's process (a process that has already stopped
\* raises ProcessLookupError, which is ignored) and await it.
KillPending(b) ==
    /\ kpc = "kill"
    /\ b \in pending \ awaited
    /\ backend' = b
    /\ proc' = [proc EXCEPT ![b] = IF proc[b] = "running" THEN "killed" ELSE proc[b]]
    /\ awaited' = awaited \cup {b}
    /\ UNCHANGED <<task_done, klee_output, done, pending, winner, extracted, kpc>>
    /\ UNCHANGED notKlee

\* symex.py:120-187: read the popped task's output and its backend's output directory
ReadResults ==
    /\ kpc = "kill"
    /\ pending \subseteq awaited
    /\ LET from == ResultBackend(winner, backend)
       IN  /\ backend' = from
           /\ extracted' = [from |-> from, content |-> klee_output[from]]
           /\ kpc' = IF klee_output[from] \in {"crashed", "empty"} THEN "error" ELSE "read"
    /\ UNCHANGED <<proc, task_done, klee_output, done, pending, winner, awaited>>
    /\ UNCHANGED notKlee

NextKlee ==
    \/ Launch
    \/ \E b \in BackendSet : ProcessExit(b)
    \/ \E b \in BackendSet : TaskComplete(b)
    \/ WaitReturns
    \/ \E b \in BackendSet : KillPending(b)
    \/ ReadResults

-----------------------------------------------------------------------------
(* The two-track type environment: name -> [aligned, shadow] *)

ExprTracks == {"e" \o ToString(k) : k \in 1..NumExprs}
Tracks == {"0", "*"} \cup ExprTracks

\* merge of one track: "*" if either side is "*" or the two sides differ, else the
\* common value
MergeTrack(a, b) == IF a = "*" \/ b = "*" \/ a # b THEN "*" ELSE a

\* TypeSystem.merge(other), self being `self_types`: per name and per track; a name only
\* one side knows keeps its types
Merge(self_types, other) ==
    [n \in (DOMAIN self_types) \cup (DOMAIN other) |->
        IF n \in DOMAIN self_types /\ n \in DOMAIN other
        THEN [aligned |-> MergeTrack(self_types[n].aligned, other[n].aligned),
              shadow  |-> MergeTrack(self_types[n].shadow, other[n].shadow)]
        ELSE IF n \in DOMAIN self_types THEN self_types[n] ELSE other[n]]

\* visit_If keeps the else-branch environment and forgets the then-branch's
IfMergeKeepFalse(true_types, false_types) == false_types

\* base.py:296-297: after both branches, the current (else-branch) environment merges in
\* the then-branch's
IfMerge(true_types, false_types) == Merge(false_types, true_types)

\* The environments the merge laws are tried on: x takes every pair of tracks, y every
\* aligned track that an annotation can give it.
MergeEnvs ==
    {[n \in {"x", "y"} |-> IF n = "x" THEN [aligned |-> xa, shadow |-> xs]
                                       ELSE [aligned |-> ya, shadow |-> "0"]] :
        xa \in Tracks, xs \in Tracks, ya \in {"0", "*"}}

InitMerge ==
    /\ env_a \in MergeEnvs /\ env_b \in MergeEnvs /\ env_c \in MergeEnvs
    /\ merge_out = NoMerges
    /\ mpc = "start"
    /\ IdleCegis /\ IdleKlee /\ IdleTransform /\ IdleCost /\ IdleRelated /\ IdleMacro /\ IdlePre /\ IdleGen /\ IdleMain /\ IdleDriver /\ IdleExec /\ IdleAssume /\ IdleSampling

\* merge applied to the environments in both orders, both groupings and to itself
ApplyMerge ==
    /\ mpc = "start"
    /\ merge_out' = [merge_out EXCEPT
                        !.ab = Merge(env_a, env_b),
                        !.ba = Merge(env_b, env_a),
                        !.aa = Merge(env_a, env_a),
                        !.ab_c = Merge(Merge(env_a, env_b), env_c),
                        !.a_bc = Merge(env_a, Merge(env_b, env_c))]
    /\ mpc' = "merged"
    /\ UNCHANGED <<env_a, env_b, env_c>>
    /\ UNCHANGED notMerge

\* base.py:283-297: the environment after an if whose branches end in env_a and env_b,
\* and after the if with the branches exchanged
IfMergeBranches ==
    /\ mpc = "merged"
    /\ merge_out' = [merge_out EXCEPT
                        !.if_ab = IfMerge(env_a, env_b),
                        !.if_ba = IfMerge(env_b, env_a)]
    /\ mpc' = "if_merged"
    /\ UNCHANGED <<env_a, env_b, env_c>>
    /\ UNCHANGED notMerge

NextMerge ==
    \/ ApplyMerge
    \/ IfMergeBranches

-----------------------------------------------------------------------------
(* Transformer: the statements it visits *)

\* x is a local, y a variable declared before the statement, eta a random variable
Names == {"x", "y", "eta"}

\* the distance of a name whose declaration has not been visited yet
\* (preprocess.py:161 registers the name, base.py:83 skips it)
NoDistance == "None"

Constant == [k |-> "Constant"]
ID(name) == [k |-> "ID", name |-> name]
BinaryOp(op, left, right) == [k |-> "BinaryOp", op |-> op, left |-> left, right |-> right]
\* the initializer of a declaration without one, and a call of the noise mechanism
NoInit == [k |-> "NoInit"]
FuncCall == [k |-> "FuncCall"]

Assignment(name, rvalue) == [k |-> "Assignment", name |-> name, rvalue |-> rvalue]
Decl(name, init) == [k |-> "Decl", name |-> name, init |-> init]
\* iffalse = <<>> is an if without else
If(cond, iftrue, iffalse) == [k |-> "If", cond |-> cond, iftrue |-> iftrue, iffalse |-> iffalse]
While(cond, stmt) == [k |-> "While", cond |-> cond, stmt |-> stmt]

\* the right-hand sides: a constant, a variable, a difference that cancels, a sum
ExprPool ==
    {Constant, ID("y"),
     BinaryOp("-", ID("y"), ID("y")),
     BinaryOp("+", ID("x"), ID("eta"))}

\* the initializers: a constant and a plain name
InitPool == {Constant, ID("y")}

CondPool == {ID("y"), BinaryOp("-", ID("x"), ID("eta"))}

Atoms ==
    {Assignment("x", e) : e \in ExprPool}
        \cup {Decl("x", NoInit)}
        \cup {Decl("x", e) : e \in InitPool}
        \cup {Decl("eta", FuncCall)}

RECURSIVE StmtsOfSize(_), BlocksOfSize(_)
\* the statements made of n statement nodes
StmtsOfSize(n) ==
    IF n = 1 THEN Atoms
    ELSE {While(c, b) : c \in CondPool, b \in BlocksOfSize(n - 1)}
            \cup UNION {{If(c, t, f) : c \in CondPool, t \in BlocksOfSize(i),
                                       f \in BlocksOfSize(n - 1 - i)} : i \in 1..(n - 1)}

\* the statement lists made of n statement nodes
BlocksOfSize(n) ==
    IF n = 0 THEN {<<>>}
    ELSE UNION {{<<st>> \o rest : st \in StmtsOfSize(j), rest \in BlocksOfSize(n - j)} :
                    j \in 1..n}

RECURSIVE ExprNames(_)
ExprNames(e) ==
    CASE e.k = "ID" -> {e.name}
      [] e.k = "BinaryOp" -> ExprNames(e.left) \cup ExprNames(e.right)
      [] OTHER -> {}

RECURSIVE WellScoped(_, _, _)
\* the C compiler accepts the block: every name is used inside the scope of its
\* declaration and declared once per block
WellScoped(stmts, visible, local) ==
    IF stmts = <<>> THEN TRUE
    ELSE LET st == Head(stmts)
             rest == Tail(stmts)
         IN  CASE st.k = "Assignment" ->
                    /\ st.name \in visible
                    /\ ExprNames(st.rvalue) \subseteq visible
                    /\ WellScoped(rest, visible, local)
               [] st.k = "Decl" ->
                    /\ st.name \notin local
                    /\ ExprNames(st.init) \subseteq visible
                    /\ WellScoped(rest, visible \cup {st.name}, local \cup {st.name})
               [] st.k = "If" ->
                    /\ ExprNames(st.cond) \subseteq visible
                    /\ WellScoped(st.iftrue, visible, {})
                    /\ WellScoped(st.iffalse, visible, {})
                    /\ WellScoped(rest, visible, local)
               [] st.k = "While" ->
                    /\ ExprNames(st.cond) \subseteq visible
                    /\ WellScoped(st.stmt, visible, {})
                    /\ WellScoped(rest, visible, local)

-----------------------------------------------------------------------------
(* Transformer: the typing rules *)

\* a distance expression in simplified form: the coefficient of each name's distance
\* variable
ZeroDistance == [n \in Names |-> 0]

RECURSIVE DistanceGenerator(_, _, _)
\* utils.py:120-159, for one track: a constant has distance 0, a name its track (its
\* distance variable when the track is "*"), an operation the simplified combination
DistanceGenerator(types, e, track) ==
    CASE e.k = "Constant" -> ZeroDistance
      [] e.k = "ID" ->
            IF types[e.name][track] = "0" THEN ZeroDistance
            ELSE [n \in Names |-> IF n = e.name THEN 1 ELSE 0]
      [] e.k = "BinaryOp" ->
            LET left == DistanceGenerator(types, e.left, track)
                right == DistanceGenerator(types, e.right, track)
            IN  [n \in Names |-> IF e.op = "+" THEN left[n] + right[n] ELSE left[n] - right[n]]

\* utils.py:42-49, the shadow component
is_shadow_divergent(types, condition) ==
    \E n \in ExprNames(condition) : types[n].shadow = "*"

\* base.py:65-71
update_pc(pc_, types, condition) ==
    IF ~enable_shadow THEN FALSE
    ELSE IF pc_ THEN TRUE
    ELSE is_shadow_divergent(types, condition)

\* base.py:103-134 (T-Asgn), the type environment after the assignment
assign(types, name, expression, pc_) ==
    LET var == types[name]
        aligned == DistanceGenerator(types, expression, "aligned")
        shadow == DistanceGenerator(types, expression, "shadow")
    IN  [types EXCEPT ![name] =
            [aligned |-> IF aligned # ZeroDistance \/ var.aligned = "*" THEN "*" ELSE "0",
             shadow  |-> IF pc_ \/ shadow # ZeroDistance \/ var.shadow = "*" THEN "*" ELSE "0"]]

\* base.py:210-222 (T-Laplace), the type environment after the sampling
sample(types, name) ==
    LET updated == [types EXCEPT ![name] = [aligned |-> "*", shadow |-> "0"]]
        shadow_type_system ==
            [n \in DOMAIN updated |-> [aligned |-> updated[n].shadow, shadow |-> updated[n].shadow]]
    IN  IF enable_shadow THEN Merge(updated, shadow_type_system) ELSE updated

\* the fixed-point iteration keeps what the body left and drops the merge
FixedPointStepNoMerge(visited, fixed) == visited

\* base.py:347: after the body was visited, the environment the iteration began with is
\* merged in
FixedPointStep(visited, fixed) == Merge(visited, fixed)

\* the number of times a track of some name can change, plus one
MaxIterations == 2 * 2 * Cardinality(Names) + 1

\* a local variable holds the one value its right-hand side had when it was assigned:
\* Only({F(v) : v \in {e}}) is F applied to the value of e
Only(S) == CHOOSE v \in S : TRUE

RECURSIVE visit_Compound(_, _, _), visit(_, _, _), fixed_point(_, _, _, _)

\* base.py:136-142; r = [types, pc, ok]; a raised exception ends the visit
visit_Compound(block_items, r, level) ==
    IF block_items = <<>> \/ r.ok # "ok" THEN r
    ELSE Only({visit_Compound(Tail(block_items), visited, level) :
                  visited \in {visit(Head(block_items), r, level)}})

\* base.py:344-347 for a loop inside the visited statement: the body is visited and the
\* environment the iteration began with merged in, until that changes nothing
fixed_point(node_, r, level, fuel) ==
    LET Compare(visited, merged) ==
            IF visited.ok # "ok" THEN visited
            ELSE IF merged = r.types THEN [visited EXCEPT !.types = merged]
            ELSE IF fuel = 0 THEN [visited EXCEPT !.ok = "diverged"]
            ELSE fixed_point(node_, [r EXCEPT !.types = merged], level, fuel - 1)
    IN  Only({Only({Compare(visited, merged) :
                        merged \in {FixedPointStep(visited.types, r.types)}}) :
                  visited \in {visit_Compound(node_.stmt, r, level)}})

\* visit_Assignment (base.py:178-181), visit_Decl (183-268), visit_If (270-332) and
\* visit_While (334-380): their effect on the type environment and on pc
visit(st, r, level) ==
    CASE st.k = "Assignment" ->
            [r EXCEPT !.types = assign(r.types, st.name, st.rvalue, r.pc)]
      [] st.k = "Decl" ->
            IF st.init.k = "NoInit"
            THEN [r EXCEPT !.types[st.name] = [aligned |-> "0", shadow |-> "0"]]
            ELSE IF st.init.k \in {"Constant", "BinaryOp"}
            THEN [r EXCEPT !.types = assign(r.types, st.name, st.init, r.pc)]
            ELSE IF st.init.k = "FuncCall"
            THEN IF enable_shadow /\ r.pc THEN [r EXCEPT !.ok = "raised"]
                 ELSE [r EXCEPT !.types = sample(r.types, st.name)]
            ELSE [r EXCEPT !.ok = "raised"]
      [] st.k = "If" ->
            LET pc_ == update_pc(r.pc, r.types, st.cond)
                Join(true_, false_) ==
                    IF false_.ok # "ok" THEN false_
                    ELSE [types |-> IfMerge(true_.types, false_.types), pc |-> r.pc, ok |-> "ok"]
            IN  Only({Only({Join(true_, false_) :
                              false_ \in {visit_Compound(st.iffalse,
                                                         [true_ EXCEPT !.types = r.types], level)}}) :
                        true_ \in {visit_Compound(st.iftrue, [r EXCEPT !.pc = pc_], level)}})
      [] st.k = "While" ->
            LET pc_ == update_pc(r.pc, r.types, st.cond)
                Converged(fixed) ==
                    IF fixed.ok # "ok" THEN fixed
                    ELSE IF level # 0 THEN [fixed EXCEPT !.pc = r.pc]
                    ELSE Only({IF again.ok # "ok" THEN again
                               ELSE [types |-> Merge(r.types, fixed.types), pc |-> r.pc,
                                     ok |-> "ok"] :
                                  again \in {visit_Compound(st.stmt, fixed, level)}})
            IN  Only({Converged(fixed) :
                        fixed \in {fixed_point(st, [r EXCEPT !.pc = pc_], level + 1,
                                               MaxIterations)}})

\* base.py:74-91, the inserted assignments <version>_<name> = <distance>
instrument(type_system_1, type_system_2, pc_) ==
    {[version |-> p[2], name |-> p[1], distance |-> type_system_1[p[1]][p[2]]] :
        p \in {q \in ((DOMAIN type_system_1) \cap (DOMAIN type_system_2)) \X {"aligned", "shadow"} :
                 /\ type_system_1[q[1]][q[2]] # NoDistance
                 /\ type_system_2[q[1]][q[2]] # NoDistance
                 /\ ~(~enable_shadow \/ (q[2] = "shadow" /\ pc_))
                 /\ type_system_1[q[1]][q[2]] # "*"
                 /\ type_system_2[q[1]][q[2]] = "*"}}

\* utils.py:42-49, the aligned component
is_aligned_divergent(types, condition) ==
    \E n \in ExprNames(condition) : types[n].aligned = "*"

\* utils.py:81-96, ExpressionReplacer._replace for the aligned version: the name, plus
\* its distance variable when its track is "*"
replace_aligned(types, e) ==
    IF types[e.name].aligned = "*"
    THEN [k |-> "BinaryOp", op |-> "+", left |-> e,
          right |-> [k |-> "ID", name |-> "aligned_" \o e.name]]
    ELSE e

RECURSIVE ExpressionReplacer(_, _)
\* utils.py:98-117, e^aligned: the names that are operands of an operation are replaced;
\* an expression that is a single name has no visit method and is left as it is
ExpressionReplacer(types, e) ==
    IF e.k # "BinaryOp" THEN e
    ELSE [e EXCEPT
            !.left = IF e.left.k = "ID" THEN replace_aligned(types, e.left)
                     ELSE ExpressionReplacer(types, e.left),
            !.right = IF e.right.k = "ID" THEN replace_aligned(types, e.right)
                      ELSE ExpressionReplacer(types, e.right)]

\* base.py:318-322: ASSERT_call(<cond>) for the true branch, ASSERT_call(!<cond>) for the false one
ASSERT_call(aligned_cond, negated) == [k |-> "ASSERT", cond |-> aligned_cond, negated |-> negated]

\* base.py:286-293: self._type_system is the environment the false branch has left when
\* aligned_false_cond is computed
aligned_false_cond(before, after_false, cond) == ExpressionReplacer(after_false, cond)

-----------------------------------------------------------------------------
(* Transformer: visit_If and visit_While at loop level 0 *)

\* the statements the transformer is run on
TopNodes ==
    UNION {StmtsOfSize(n) : n \in 2..(MaxNodes + 1)}

\* the type environments the statement can be reached with: y was declared before it
\* and eta sampled, x was declared before it or is declared inside it
DeclaredTypes ==
    {[aligned |-> "0", shadow |-> "0"], [aligned |-> "*", shadow |-> "0"],
     [aligned |-> "*", shadow |-> "*"]}

TypeSystems ==
    {[n \in Names |-> CASE n = "x" -> tx [] n = "y" -> ty
                        [] n = "eta" -> [aligned |-> "*", shadow |-> "0"]] :
        tx \in DeclaredTypes \cup {[aligned |-> NoDistance, shadow |-> NoDistance]},
        ty \in DeclaredTypes}

Declared(types) == {n \in DOMAIN types : types[n].aligned # NoDistance}

\* the transformer as constructed (base.py:46-63) on the type environment it is given
InitTransform ==
    /\ node = <<>>
    /\ enable_shadow \in BOOLEAN
    /\ t_pc = FALSE
    /\ type_system \in TypeSystems
    /\ before_pc = FALSE
    /\ before_types = NoTypes
    /\ fixed_types = NoTypes
    /\ loop_level = 0
    /\ branch_types = NoBranchTypes
    /\ inserted = NoInserted
    /\ tstep = "constructed"
    /\ IdleCegis /\ IdleKlee /\ IdleMerge /\ IdleCost /\ IdleRelated /\ IdleMacro /\ IdlePre /\ IdleGen /\ IdleMain /\ IdleDriver /\ IdleExec /\ IdleAssume /\ IdleSampling

\* visit_FuncDef (base.py:144-155) reaches an if or a while of the function body
ReachStatement ==
    /\ tstep = "constructed"
    /\ node' \in {st \in TopNodes : WellScoped(<<st>>, Declared(type_system), {})}
    /\ tstep' = "start"
    /\ UNCHANGED <<enable_shadow, t_pc, type_system, before_pc, before_types, fixed_types,
                   loop_level, branch_types, inserted>>
    /\ UNCHANGED notTransform

\* base.py:335-343
WhileEnter ==
    /\ tstep = "start"
    /\ node.k = "While"
    /\ before_pc' = t_pc
    /\ t_pc' = update_pc(t_pc, type_system, node.cond)
    /\ before_types' = type_system
    /\ fixed_types' = NoTypes
    /\ loop_level' = loop_level + 1
    /\ tstep' = "iterate"
    /\ UNCHANGED <<node, enable_shadow, type_system, branch_types, inserted>>
    /\ UNCHANGED notTransform

\* base.py:344-347, one iteration
WhileIterate ==
    /\ tstep = "iterate"
    /\ fixed_types # type_system
    /\ fixed_types' = type_system
    /\ \E visited \in {visit_Compound(node.stmt, [types |-> type_system, pc |-> t_pc, ok |-> "ok"],
                                      loop_level)} :
          IF visited.ok # "ok"
          THEN /\ type_system' = visited.types
               /\ tstep' = visited.ok
          ELSE /\ type_system' = FixedPointStep(visited.types, type_system)
               /\ tstep' = "iterate"
    /\ UNCHANGED <<node, enable_shadow, t_pc, before_pc, before_types, loop_level,
                   branch_types, inserted>>
    /\ UNCHANGED notTransform

\* base.py:344 (the loop ends), 348-380
WhileConverged ==
    /\ tstep = "iterate"
    /\ fixed_types = type_system
    /\ loop_level' = loop_level - 1
    /\ \E visited \in {visit_Compound(node.stmt, [types |-> type_system, pc |-> t_pc, ok |-> "ok"],
                                      loop_level - 1)},
          merged \in {Merge(before_types, fixed_types)} :
          IF visited.ok # "ok"
          THEN /\ type_system' = visited.types
               /\ tstep' = visited.ok
               /\ UNCHANGED <<t_pc, branch_types, inserted>>
          ELSE /\ branch_types' = [branch_types EXCEPT !.after_visit = visited.types]
               /\ type_system' = merged
               /\ inserted' = [inserted EXCEPT
                                  !.before_loop = instrument(before_types, merged, t_pc),
                                  !.body_end = instrument(visited.types, merged, t_pc)]
               /\ t_pc' = before_pc
               /\ tstep' = "done"
    /\ UNCHANGED <<node, enable_shadow, before_pc, before_types, fixed_types>>
    /\ UNCHANGED notTransform

\* base.py:270-332
VisitIf ==
    /\ tstep = "start"
    /\ node.k = "If"
    /\ before_pc' = t_pc
    /\ before_types' = type_system
    /\ \E pc_ \in {update_pc(t_pc, type_system, node.cond)} :
       \E true_ \in {visit_Compound(node.iftrue, [types |-> type_system, pc |-> pc_, ok |-> "ok"],
                                    loop_level)} :
       \E false_ \in {visit_Compound(node.iffalse, [true_ EXCEPT !.types = type_system],
                                     loop_level)} :
       \E merged \in {IfMerge(true_.types, false_.types)} :
          IF false_.ok # "ok"
          THEN /\ type_system' = false_.types
               /\ t_pc' = pc_
               /\ tstep' = false_.ok
               /\ UNCHANGED <<branch_types, inserted>>
          ELSE /\ branch_types' = [branch_types EXCEPT !.true_types = true_.types,
                                                       !.false_types = false_.types]
               /\ type_system' = merged
               /\ inserted' = [inserted EXCEPT
                                  !.true_top =
                                      IF is_aligned_divergent(merged, node.cond)
                                      THEN {ASSERT_call(ExpressionReplacer(type_system, node.cond),
                                                   FALSE)}
                                      ELSE {},
                                  !.false_top =
                                      IF is_aligned_divergent(merged, node.cond)
                                      THEN {ASSERT_call(aligned_false_cond(type_system, false_.types,
                                                                      node.cond), TRUE)}
                                      ELSE {},
                                  !.true_end = instrument(true_.types, merged, pc_),
                                  !.false_end = instrument(false_.types, merged, pc_)]
               /\ t_pc' = t_pc
               /\ tstep' = "done"
    /\ UNCHANGED <<node, enable_shadow, fixed_types, loop_level>>
    /\ UNCHANGED notTransform

\* the steps of visit_If and visit_While
VisitStatement ==
    \/ WhileEnter
    \/ WhileIterate
    \/ WhileConverged
    \/ VisitIf

NextTransform ==
    \/ ReachStatement
    \/ VisitStatement

-----------------------------------------------------------------------------
(* The cost variable of the transformed function (T-Laplace, base.py:243-262) *)

SELECT_ALIGNED == "ALIGNED"
SELECT_SHADOW == "SHADOW"

Abs(v) == IF v < 0 THEN -v ELSE v

\* the sampling cost without the absolute value
costSigned(distance, inverse) == distance * inverse

\* base.py:249: Abs(aligned distance of the sample) * (1 / scale)
cost(distance, inverse) == Abs(distance) * inverse

\* base.py:251-255: what the emitted statement adds the cost to
previous_cost(sel) ==
    IF enable_shadow
    THEN (IF sel = SELECT_ALIGNED THEN v_epsilon ELSE 0)
    ELSE v_epsilon

\* the transformed function starts (base.py:157-162: v_epsilon = 0, SAMPLE_INDEX = 0); it
\* was produced with or without shadow execution
InitCost ==
    /\ enable_shadow \in BOOLEAN
    /\ NothingVisited
    /\ v_epsilon = 0
    /\ sample_index = 0
    /\ selector = "none"
    /\ aligned_eta = 0
    /\ inverse_scale = 0
    /\ IdleCegis /\ IdleKlee /\ IdleMerge /\ IdleRelated /\ IdleMacro /\ IdlePre /\ IdleGen /\ IdleMain /\ IdleDriver /\ IdleExec /\ IdleAssume /\ IdleSampling

\* the statements inserted at a sampling (base.py:243-262) run: the aligned distance of
\* the sample is set from its template, v_epsilon is assigned, SAMPLE_INDEX advances
SamplingPoint ==
    /\ sample_index < MaxSamples
    /\ \E sel \in (IF enable_shadow THEN {SELECT_ALIGNED, SELECT_SHADOW} ELSE {SELECT_ALIGNED}),
          d \in (-MaxDistance)..MaxDistance,
          inverse \in 1..MaxInverseScale :
          /\ selector' = sel
          /\ aligned_eta' = d
          /\ inverse_scale' = inverse
          /\ v_epsilon' = previous_cost(sel) + cost(d, inverse)
    /\ sample_index' = sample_index + 1
    /\ UNCHANGED notCost

NextCost == SamplingPoint

-----------------------------------------------------------------------------
(* Template.related_inputs (template.py:115-120) *)

query_variable == "q"
aligned_query == "ALIGNED_DISTANCE_q"

Values == (-MaxValue)..MaxValue

\* the models of an input search: the query, its aligned distance, and another variable
Counterexamples ==
    {[key \in {query_variable, aligned_query, "size"} |->
        CASE key = query_variable -> q
          [] key = aligned_query -> dq
          [] key = "size" -> n] :
        q \in [1..QuerySize -> Values], dq \in [1..QuerySize -> Values], n \in {QuerySize}}

\* related = original_inputs: a second reference to the same dict
copyReference(h, ref) == [heap |-> h, ref |-> ref]

\* template.py:117, dict.copy(): a new dict with the same keys and values
copy(h, ref) == [heap |-> Append(h, h[ref]), ref |-> Len(h) + 1]

\* template.py:118-119: zip stops at the shorter list
zip_sum(xs, ys) ==
    [i \in 1..(IF Len(xs) < Len(ys) THEN Len(xs) ELSE Len(ys)) |-> xs[i] + ys[i]]

InitRelated ==
    /\ heap \in {<<c>> : c \in Counterexamples}
    /\ original_inputs = 1
    /\ related = 0
    /\ rpc = "call"
    /\ IdleCegis /\ IdleKlee /\ IdleMerge /\ IdleTransform /\ IdleCost /\ IdleMacro /\ IdlePre /\ IdleGen /\ IdleMain /\ IdleDriver /\ IdleExec /\ IdleAssume /\ IdleSampling

\* template.py:115-120
RelatedInputs ==
    /\ rpc = "call"
    /\ \E copied \in {copy(heap, original_inputs)} :
          /\ heap' = [copied.heap EXCEPT ![copied.ref][query_variable] =
                         zip_sum(copied.heap[copied.ref][query_variable],
                                 copied.heap[copied.ref][aligned_query])]
          /\ related' = copied.ref
    /\ rpc' = "returned"
    /\ UNCHANGED original_inputs
    /\ UNCHANGED notRelated

NextRelated == RelatedInputs

-----------------------------------------------------------------------------
(* RandomDistanceGenerator.generate_macros (random_distance.py:184-209) *)

\* random_distance.py:15-18
AlignmentIndexType == {"Variable", "Constant", "Selector"}

\* the right subtree numbers its slots from the length the list had before the left one
rightStartBeforeLeft(before, after_left) == before

\* random_distance.py:35-36: both recursive calls append to the same list, the right
\* subtree continues after the slots of the left one
rightStart(before, after_left) == after_left

RECURSIVE generate_random_distance(_, _, _, _)
\* random_distance.py:21-37, for `conditions` conditions and `variables` variables: the
\* tag list after the call and the leaves of the returned expression, each leaf the
\* alignment-array indices it refers to, in order
generate_random_distance(conditions, variables, types, is_selector) ==
    LET start_index == Len(types)
    IN  IF conditions = 0
        THEN [types |-> types \o <<IF is_selector THEN "Selector" ELSE "Constant">>
                              \o [index \in 1..variables |-> "Variable"],
              leaves |-> <<[slot \in 1..(1 + variables) |-> start_index + slot - 1]>>]
        ELSE LET left == generate_random_distance(conditions - 1, variables, types, is_selector)
                 right == generate_random_distance(conditions - 1, variables,
                                                   rightStart(types, left.types), is_selector)
             IN  [types |-> right.types, leaves |-> left.leaves \o right.leaves]

RECURSIVE generate_macros(_, _, _, _)
\* random_distance.py:193-206, from the k-th template on: the macros inserted and the tag
\* list. A macro is [name, of (the sample), literal (no alignment slot), leaves]
generate_macros(all_templates, k, macros, types) ==
    IF k > Len(all_templates) THEN [inserted |-> macros, alignment_array_types |-> types]
    ELSE LET t == all_templates[k]
             selector_template ==
                 IF t.conditions = 0
                 THEN [types |-> types, leaves |-> <<>>]
                 ELSE generate_random_distance(t.conditions, 0, types, TRUE)
             selector_macro ==
                 [name |-> "SELECTOR", of |-> k, literal |-> (t.conditions = 0),
                  leaves |-> selector_template.leaves]
             after_selector == IF enable_shadow THEN selector_template.types ELSE types
             template == generate_random_distance(t.conditions, t.variables, after_selector, FALSE)
             distance_macro ==
                 [name |-> "RANDOM_DISTANCE", of |-> k, literal |-> FALSE,
                  leaves |-> template.leaves]
         IN  generate_macros(all_templates, k + 1,
                             macros \o (IF enable_shadow THEN <<selector_macro>> ELSE <<>>)
                                    \o <<distance_macro>>,
                             template.types)

\* the templates the visit collected (random_distance.py:186): per sample, the number of
\* its conditions and of its variables
Templates ==
    UNION {[1..n -> [conditions : 0..MaxConditions, variables : 0..MaxVariables]] :
              n \in 0..MaxTemplates}

InitMacro ==
    /\ enable_shadow \in BOOLEAN
    /\ NothingVisited
    /\ templates \in Templates
    /\ inserted_macros = <<>>
    /\ alignment_array_types = <<>>
    /\ gpc = "visited"
    /\ IdleCegis /\ IdleKlee /\ IdleMerge /\ IdleCost /\ IdleRelated /\ IdlePre /\ IdleGen /\ IdleMain /\ IdleDriver /\ IdleExec /\ IdleAssume /\ IdleSampling

\* random_distance.py:189-209
GenerateMacros ==
    /\ gpc = "visited"
    /\ \E out \in {generate_macros(templates, 1, <<>>, <<>>)} :
          /\ inserted_macros' = out.inserted
          /\ alignment_array_types' = out.alignment_array_types
    /\ gpc' = "generated"
    /\ UNCHANGED templates
    /\ UNCHANGED notMacro

NextMacro == GenerateMacros

-----------------------------------------------------------------------------
(* Preprocessor.process: the sanity checks, the three annotations, the initial *)
(* type environment                                                            *)

\* the exceptions process can end with
Raised == {"ValueError", "NotImplementedError", "AttributeError", "StopIteration"}

\* the names that start with constants.PREFIX (preprocess.py:145, 170)
ReservedNames == {"CHECKDP_x", "CHECKDP_foo"}

\* the names of the model's programs
PreNames == {"query", "size", "epsilon", "T", "N", "x", "eta", "CHECKDP_x"}

\* a declaration: a c_ast.Decl of a parameter or of a local; `names` are the words of its
\* base type, `init` is "Lap" for a sampling and "none" otherwise
Declaration(name, is_array, names, init, scale) ==
    [kind |-> "Decl", name |-> name, is_array |-> is_array, names |-> names,
     init |-> init, scale |-> scale]

\* a call statement `name(...)`
Call(name) ==
    [kind |-> "FuncCall", name |-> name, is_array |-> FALSE, names |-> <<>>,
     init |-> "none", scale |-> <<0, 1>>]

Return ==
    [kind |-> "Return", name |-> "return", is_array |-> FALSE, names |-> <<>>,
     init |-> "none", scale |-> <<0, 1>>]

\* ---- rationals, for the scales and the goal (sympy in process) ----
RECURSIVE GCD(_, _)
GCD(m, n) == IF n = 0 THEN m ELSE GCD(n, m % n)

LCM(m, n) == (m * n) \div GCD(m, n)

\* p / q in lowest terms
Fraction(p, q) == <<p \div GCD(p, q), q \div GCD(p, q)>>

\* ---- the type environment (TypeSystem) ----
NoEntry == [aligned |-> "None", shadow |-> "None", base |-> "None", is_array |-> FALSE]

EmptyTypeSystem == [n \in PreNames |-> NoEntry]

\* TypeSystem.update_base_type
update_base_type(types, name, base, is_array) ==
    [types EXCEPT ![name].base = base, ![name].is_array = is_array]

\* TypeSystem.update_distance
update_distance(types, name, aligned, shadow) ==
    [types EXCEPT ![name].aligned = aligned, ![name].shadow = shadow]

\* ---- parse_annotation ----
\* The distance annotation is a sequence of items `name:<D,D>`; the regular expression of
\* preprocess.py:28 matches the items whose two distances are 0 or *.
TypeItem(name, aligned, shadow) == [name |-> name, aligned |-> aligned, shadow |-> shadow]

Matches(item) == item.aligned \in {"0", "*"} /\ item.shadow \in {"0", "*"}

\* preprocess.py:26-28: a dict built in the order of the matches, a later match of a
\* name replaces an earlier one
initial_types(type_str) ==
    LET at(name) == {k \in 1..Len(type_str) : type_str[k].name = name /\ Matches(type_str[k])}
        keys == {type_str[k].name : k \in {j \in 1..Len(type_str) : Matches(type_str[j])}}
    IN  [name \in keys |->
            LET k == CHOOSE k \in at(name) : \A j \in at(name) : j <= k
            IN  <<type_str[k].aligned, type_str[k].shadow>>]

\* The precondition annotation is a sequence of clauses: `PRECONDITION:word`,
\* `ASSUME(text)` and `ASSUME_HOLE(text)`.
Clause(kind, text) == [kind |-> kind, text |-> text]

PreconditionClasses == {"ONE_DIFFER", "ALL_DIFFER", "DECREASING", "INCREASING"}

\* preprocess.py:32: re.match of PRECONDITION:(ONE_DIFFER|ALL_DIFFER|DECREASING|INCREASING)
\* at the start of the string; the group is the class the word starts with
ClassPrefix(word) ==
    CASE word \in PreconditionClasses -> word
      [] word = "ALL_DIFFERENT" -> "ALL_DIFFER"
      [] OTHER -> "None"

\* the texts with a parenthesis inside
Parenthesized == {"(size+1)>0"}

\* preprocess.py:37-38, 41-42: re.finditer of KIND\(([^()]*)\); a text with a
\* parenthesis inside has no match
RECURSIVE finditer(_, _)
finditer(kind, precondition_str) ==
    IF precondition_str = <<>> THEN <<>>
    ELSE LET clause == Head(precondition_str)
             rest == finditer(kind, Tail(precondition_str))
         IN  IF clause.kind = kind /\ clause.text \notin Parenthesized
             THEN <<clause.text>> \o rest
             ELSE rest

\* The goal annotation: keyword:(text), the parentheses optional; goal is the number
\* the text denotes.
Check(keyword, goal) == [keyword |-> keyword, goal |-> goal]

\* preprocess.py:14-49
parse_annotation(type_str, precondition_str, check_str) ==
    IF \/ precondition_str = <<>>
       \/ precondition_str[1].kind # "PRECONDITION"
       \/ ClassPrefix(precondition_str[1].text) = "None"
    THEN [status |-> "ValueError", initial_types |-> <<>>, preconditions |-> <<>>,
          hole_preconditions |-> <<>>, check |-> <<0, 1>>]
    ELSE IF check_str.keyword # "CHECK"
    THEN [status |-> "ValueError", initial_types |-> <<>>, preconditions |-> <<>>,
          hole_preconditions |-> <<>>, check |-> <<0, 1>>]
    ELSE [status |-> "ok",
          initial_types |-> initial_types(type_str),
          preconditions |-> <<ClassPrefix(precondition_str[1].text)>>
                               \o finditer("ASSUME", precondition_str),
          hole_preconditions |-> finditer("ASSUME_HOLE", precondition_str),
          check |-> check_str.goal]

\* ---- the visitor ----
\* a function definition: its name, its parameters, whether the first three statements
\* of its body are string literals, what they hold, and the statements after them
FuncDef(name, params, strings, type_str, precondition_str, check_str, body) ==
    [name |-> name, params |-> params, strings |-> strings, type_str |-> type_str,
     precondition_str |-> precondition_str, check_str |-> check_str, body |-> body]

\* the state of a visit: how it ended so far, the type environment, the statements with
\* their base types coerced, and the sampling calls found
Visit(status, types, stmts, random_scales) ==
    [status |-> status, types |-> types, stmts |-> stmts, random_scales |-> random_scales]

\* preprocess.py:166-175
visit_FuncCall(name) ==
    IF name \in {"Lap", "CHECKDP_OUTPUT"} THEN "ok"
    ELSE IF name \in ReservedNames THEN "ValueError"
    ELSE "NotImplementedError"

\* preprocess.py:142-164: the children first (the call of the initializer), then the name,
\* the base type (anything but int becomes int) and the sampling
visit_Decl(types, decl) ==
    IF decl.init # "none" /\ visit_FuncCall(decl.init) # "ok"
    THEN [status |-> visit_FuncCall(decl.init), types |-> types, decl |-> decl]
    ELSE IF decl.name \in ReservedNames
    THEN [status |-> "ValueError", types |-> types, decl |-> decl]
    ELSE IF Len(decl.names) # 1
    THEN [status |-> "NotImplementedError", types |-> types, decl |-> decl]
    ELSE [status |-> "ok",
          types |-> update_base_type(types, decl.name, "int", decl.is_array),
          decl |-> [decl EXCEPT !.names = <<"int">>]]

\* generic_visit over a list of statements: preprocess.py:104 for the parameters,
\* preprocess.py:139 for the body; the first exception ends the visit
RECURSIVE visit_statements(_, _, _)
visit_statements(stmts, k, v) ==
    IF k > Len(stmts) \/ v.status # "ok" THEN v
    ELSE LET stmt == stmts[k]
         IN  CASE stmt.kind = "Return" ->
                    [v EXCEPT !.status = "ValueError"]
               [] stmt.kind = "FuncCall" ->
                    visit_statements(stmts, k + 1,
                        [v EXCEPT !.status = visit_FuncCall(stmt.name)])
               [] stmt.kind = "Decl" ->
                    LET d == visit_Decl(v.types, stmt)
                    IN  visit_statements(stmts, k + 1,
                            [v EXCEPT !.status = d.status,
                                      !.types = d.types,
                                      !.stmts[k] = d.decl,
                                      !.random_scales =
                                          IF d.status = "ok" /\ stmt.init = "Lap"
                                          THEN @ \cup {k} ELSE @])

\* what process hands back when it raises: the exception and nothing else
raise(exception) ==
    [status |-> exception, function |-> <<>>, type_system |-> <<>>, preconditions |-> <<>>,
     hole_preconditions |-> <<>>, goal |-> <<0, 1>>]

missing_annotatedNone(annotated_variables, parameters) == {}

\* preprocess.py:128
missing_annotated(annotated_variables, parameters) == parameters \ annotated_variables

\* preprocess.py:123
extra_annotated(annotated_variables, parameters) == annotated_variables \ parameters

\* preprocess.py:133-134
RECURSIVE update_distances(_, _, _)
update_distances(types, annotated, names) ==
    IF names = {} THEN types
    ELSE LET name == CHOOSE n \in names : TRUE
         IN  update_distances(
                 update_distance(types, name, annotated[name][1], annotated[name][2]),
                 annotated, names \ {name})

\* preprocess.py:84-140; the result carries the goal and the annotations for process
visit_FuncDef(func) ==
    IF func.params = <<>> THEN raise("AttributeError")        \* args is None at line 89
    ELSE IF Len(func.params) < 3 THEN raise("ValueError")
    ELSE IF ~func.params[1].is_array THEN raise("ValueError")
    ELSE IF func.params[2].is_array \/ func.params[2].names[1] # "int" THEN raise("ValueError")
    ELSE IF func.params[3].is_array THEN raise("ValueError")
    ELSE
    LET params == visit_statements(func.params, 1,
                      Visit("ok", EmptyTypeSystem, func.params, {}))
    IN  IF params.status # "ok" THEN raise(params.status)
        ELSE IF ~func.strings THEN raise("ValueError")
        ELSE
        LET annotation == parse_annotation(func.type_str, func.precondition_str,
                                           func.check_str)
            types == annotation.initial_types
            annotated_variables == DOMAIN types
            parameters == {func.params[k].name : k \in 1..Len(func.params)}
        IN  IF annotation.status # "ok" THEN raise(annotation.status)
            ELSE IF extra_annotated(annotated_variables, parameters) # {}
            THEN raise("ValueError")
            ELSE IF missing_annotated(annotated_variables, parameters) # {}
            THEN raise("ValueError")
            ELSE
            LET updated == update_distances(params.types, types, annotated_variables)
                body == visit_statements(func.body, 1, Visit("ok", updated, func.body, {}))
            IN  IF body.status # "ok" THEN raise(body.status)
                ELSE [status |-> "visited",
                      function |-> [name |-> func.name, params |-> params.stmts,
                                    body |-> body.stmts],
                      type_system |-> body.types,
                      preconditions |-> annotation.preconditions,
                      hole_preconditions |-> annotation.hole_preconditions,
                      goal |-> annotation.check,
                      random_scales |-> body.random_scales]

\* preprocess.py:64-82: next() of an exhausted filter raises StopIteration
visit_FileAST(function_nodes, target) ==
    IF target # "None"
    THEN LET named == {k \in 1..Len(function_nodes) : function_nodes[k].name = target}
         IN  IF named = {} THEN raise("StopIteration")
             ELSE visit_FuncDef(function_nodes[CHOOSE k \in named : \A j \in named : k <= j])
    ELSE IF Len(function_nodes) # 1 THEN raise("ValueError")
    ELSE visit_FuncDef(function_nodes[1])

\* sp.lcm of the denominators of 1 / scale of every sampling and of the goal
RECURSIVE lcm(_, _, _)
lcm(body, random_scales, acc) ==
    IF random_scales = {} THEN acc
    ELSE LET k == CHOOSE k \in random_scales : TRUE
             inverse == Fraction(body[k].scale[2], body[k].scale[1])
         IN  lcm(body, random_scales \ {k}, LCM(acc, inverse[2]))

\* preprocess.py:180-197
process(function_nodes, target) ==
    LET visited == visit_FileAST(function_nodes, target)
    IN  IF visited.status # "visited" THEN visited
        ELSE LET body == visited.function.body
                 scale == lcm(body, visited.random_scales, visited.goal[2])
             IN  [status |-> "returned",
                  function |-> [visited.function EXCEPT !.body =
                      [k \in 1..Len(body) |->
                          IF k \in visited.random_scales
                          THEN [body[k] EXCEPT !.scale = Fraction(@[1], @[2] * scale)]
                          ELSE body[k]]],
                  type_system |-> visited.type_system,
                  preconditions |-> visited.preconditions,
                  hole_preconditions |-> visited.hole_preconditions,
                  goal |-> Fraction(visited.goal[1] * scale, visited.goal[2])]

\* ---- the source files of the model ----
Query == Declaration("query", TRUE, <<"int">>, "none", <<0, 1>>)
Size == Declaration("size", FALSE, <<"int">>, "none", <<0, 1>>)
Epsilon == Declaration("epsilon", FALSE, <<"float">>, "none", <<0, 1>>)
Threshold == Declaration("T", FALSE, <<"int">>, "none", <<0, 1>>)

ParamLists ==
    {<<>>, <<Query, Size>>, <<Query, Size, Epsilon>>, <<Query, Size, Epsilon, Threshold>>,
     <<[Query EXCEPT !.is_array = FALSE], Size, Epsilon>>,
     <<Query, [Size EXCEPT !.names = <<"float">>], Epsilon>>,
     <<Query, Size, [Epsilon EXCEPT !.is_array = TRUE]>>,
     <<Query, Size, Epsilon, [Threshold EXCEPT !.name = "CHECKDP_x"]>>,
     <<Query, Size, Epsilon, [Threshold EXCEPT !.names = <<"unsigned", "int">>]>>}

TypeItems ==
    {TypeItem("query", "*", "*"), TypeItem("size", "0", "0"), TypeItem("epsilon", "0", "0"),
     TypeItem("epsilon", "*", "0"), TypeItem("epsilon", "1", "0"), TypeItem("T", "0", "*"),
     TypeItem("N", "0", "0")}

TypeStrings(longest) == UNION {[1..n -> TypeItems] : n \in 0..longest}

Clauses ==
    {Clause("PRECONDITION", word) :
        word \in PreconditionClasses \cup {"ALL_DIFFERENT", "SOME_DIFFER"}}
    \cup {Clause("ASSUME", text) : text \in {"size>0", "(size+1)>0"}}
    \cup {Clause("ASSUME_HOLE", "T>0")}

PreconditionStrings(longest) == UNION {[1..n -> Clauses] : n \in 0..longest}

Checks == {Check("CHECK", <<1, 1>>), Check("CHECK", <<1, 2>>), Check("GOAL", <<1, 1>>)}

Statements ==
    {Call("CHECKDP_OUTPUT"), Call("foo"), Call("CHECKDP_foo"), Return,
     Declaration("x", FALSE, <<"int">>, "none", <<0, 1>>),
     Declaration("x", TRUE, <<"float">>, "none", <<0, 1>>),
     Declaration("CHECKDP_x", FALSE, <<"int">>, "none", <<0, 1>>),
     Declaration("x", FALSE, <<"int">>, "foo", <<0, 1>>)}
    \cup {Declaration("eta", FALSE, <<"float">>, "Lap", <<s, 1>>) : s \in 1..MaxScale}

Bodies(longest) == UNION {[1..n -> Statements] : n \in 0..longest}

\* the function of tests/transform/test_preprocessor.py and a second one like it
plain_function(name, class) ==
    FuncDef(name, <<Query, Size, [Epsilon EXCEPT !.names = <<"int">>]>>, TRUE,
            <<TypeItem("query", "*", "*"), TypeItem("size", "0", "0"),
              TypeItem("epsilon", "0", "0")>>,
            <<Clause("PRECONDITION", class)>>, Check("CHECK", <<1, 1>>),
            <<Call("CHECKDP_OUTPUT")>>)

\* int b() { return 1; }
no_parameters(name) ==
    FuncDef(name, <<>>, FALSE, <<>>, <<>>, Check("none", <<0, 1>>), <<Return>>)

Functions ==
    {plain_function("a", "ALL_DIFFER"), plain_function("b", "ONE_DIFFER"),
     no_parameters("b")}

TargetFunctions == {"None", "a", "b", "c"}

\* One function with its parameters and distance annotation varied, or with its other
\* annotations varied, or with its body varied, or a file of several functions with and
\* without a target.
InitPre ==
    /\ \/ \E params \in ParamLists, type_str \in TypeStrings(MaxAnnotations) :
             /\ file_ast = <<[plain_function("a", "ALL_DIFFER") EXCEPT
                                 !.params = params, !.type_str = type_str]>>
             /\ target_function = "None"
       \/ \E precondition_str \in PreconditionStrings(MaxClauses) :
             /\ file_ast = <<[plain_function("a", "ALL_DIFFER") EXCEPT
                                 !.precondition_str = precondition_str]>>
             /\ target_function = "None"
       \/ \E strings \in BOOLEAN, check_str \in Checks, body \in Bodies(MaxBody) :
             /\ file_ast = <<[plain_function("a", "ALL_DIFFER") EXCEPT
                                 !.strings = strings, !.check_str = check_str,
                                 !.body = body]>>
             /\ target_function = "None"
       \/ /\ file_ast \in UNION {[1..n -> Functions] : n \in 0..MaxFunctions}
          /\ target_function \in TargetFunctions
    /\ processed = <<>>
    /\ ppc = "constructed"
    /\ IdleCegis /\ IdleKlee /\ IdleMerge /\ IdleTransform /\ IdleCost /\ IdleRelated /\ IdleMacro /\ IdleGen /\ IdleMain /\ IdleDriver /\ IdleExec /\ IdleAssume /\ IdleSampling

\* Preprocessor(target_function).process(node)
Process ==
    /\ ppc = "constructed"
    /\ processed' = process(file_ast, target_function)
    /\ ppc' = "done"
    /\ UNCHANGED <<file_ast, target_function>>
    /\ UNCHANGED notPre

NextPre == Process

-----------------------------------------------------------------------------
(* RandomDistanceGenerator.generate: the conditions and the variables of the  *)
(* alignment template of every sample                                         *)

\* a subscripted array, q[i]
ArrayRef(name, subscript) == [k |-> "ArrayRef", name |-> name, subscript |-> subscript]

\* An expression of the transformed function is taken as the set of the variables and
\* array elements it is built from that do not carry constants.PREFIX (the generated
\* names are left out at random_distance.py:61 and 80).
\* NodeFinder with the check of random_distance.py:60, 92: the ID and ArrayRef nodes of
\* an expression, those below an ArrayRef included (utils.py:66-72)
NodeFinder(expression) ==
    expression
        \cup {ID(nd.name) : nd \in {n \in expression : n.k = "ArrayRef"}}
        \cup {ID(nd.subscript) : nd \in {n \in expression : n.k = "ArrayRef"}}

\* the names of the ID nodes of a nd (id_count_checker, random_distance.py:101)
IdentifiersOf(nd) ==
    IF nd.k = "ArrayRef" THEN {nd.name, nd.subscript} ELSE {nd.name}

\* the statements the visitor acts on
\* visit_Assignment / visit_Decl: left = right
Assign(left, right) == [stmt |-> "Assign", left |-> left, expr |-> right]
\* visit_Decl of a sampling: left = SAMPLE_ARRAY[SAMPLE_INDEX]
Sample(left) == [stmt |-> "Sample", left |-> left, expr |-> {}]
\* visit_FuncCall of OUTPUT(expr)
Output(expr) == [stmt |-> "Output", left |-> "", expr |-> expr]
\* visit_If of a branch on cond whose two blocks start with the generated assertion;
\* the assertion is the aligned version of cond (base.py:282, 309-318), built from the
\* same variables as cond and from generated names
IfAssert(cond) == [stmt |-> "If", left |-> "", expr |-> cond]
\* the end of visit_While for a loop on cond, after its body has been visited
EndWhile(cond) == [stmt |-> "EndWhile", left |-> "", expr |-> cond]

\* a dict without the keys of a set, and with one more key
Without(dict, keys) == [key \in DOMAIN dict \ keys |-> dict[key]]
With(dict, key, value) ==
    [k \in DOMAIN dict \cup {key} |-> IF k = key THEN value ELSE dict[k]]

\* the state of the generator
Generator(depends_, live_variable_, templates_, random_variables_) ==
    [depends |-> depends_, live_variable |-> live_variable_, templates |-> templates_,
     random_variables |-> random_variables_]

\* random_distance.py:172-176
removeLoopVariables(depends_, cond) ==
    Without(depends_, {nd.name : nd \in {n \in NodeFinder(cond) : n.k = "ID"}})

\* random_distance.py:55-76: the nodes reached from the expression through _depends
RECURSIVE all_depends(_, _)
all_depends(depends_, dependencies) ==
    LET reached == dependencies \cup
            UNION {depends_[nd.name] :
                      nd \in {n \in dependencies : n.k = "ID" /\ n.name \in DOMAIN depends_}}
    IN  IF reached = dependencies THEN dependencies ELSE all_depends(depends_, reached)

\* random_distance.py:78-93
assignment(g, left, right, is_sample) ==
    IF is_sample
    THEN LET depends_ == With(g.depends, left, {})
         IN  [g EXCEPT !.templates = With(@, left, [conditions |-> {}, variables |-> {}]),
                       !.depends = depends_,
                       !.live_variable = With(@, left, DOMAIN depends_),
                       !.random_variables = @ \cup {left}]
    ELSE [g EXCEPT !.depends = With(@, left, NodeFinder(right))]

\* random_distance.py:98-100, 107, 116: every identifier of the nd is live for eta
IsLive(g, eta, nd) ==
    IdentifiersOf(nd) \subseteq g.live_variable[eta]

\* random_distance.py:95-132; if_cond is the branch condition, or {} "None" for an output
add_dependencies(g, types, expression, has_cond, if_cond) ==
    LET dependencies == all_depends(g.depends, NodeFinder(expression))
    IN  [g EXCEPT !.templates =
            [eta \in DOMAIN g.templates |->
                IF ID(eta) \notin dependencies THEN g.templates[eta]
                ELSE [conditions |->
                          IF has_cond /\ \A dependency \in dependencies :
                                            IsLive(g, eta, dependency)
                          THEN g.templates[eta].conditions \cup {if_cond}
                          ELSE g.templates[eta].conditions,
                      variables |->
                          g.templates[eta].variables \cup
                          {nd \in dependencies :
                              /\ IsLive(g, eta, nd)
                              /\ ~(nd.k = "ID" /\ nd.name \in g.random_variables)
                              /\ ~(types[nd.name].is_array /\ nd.k = "ID")
                              /\ types[nd.name].aligned = "*"}]]]

\* random_distance.py:134-176, one statement
visit_statement(g, types, s) ==
    CASE s.stmt = "Assign" -> assignment(g, s.left, s.expr, FALSE)
      [] s.stmt = "Sample" -> assignment(g, s.left, s.expr, TRUE)
      [] s.stmt = "Output" -> add_dependencies(g, types, s.expr, FALSE, {})
      [] s.stmt = "If" -> add_dependencies(g, types, s.expr, TRUE, s.expr)
      [] s.stmt = "EndWhile" -> [g EXCEPT !.depends = removeLoopVariables(@, s.expr)]

\* the parameters of the function: visit_Decl of the FuncDecl visits every parameter
\* declaration (random_distance.py:139-142)
GeneratorParameters == {"q", "i", "T"}

GeneratorNames == GeneratorParameters \cup {"z", "eta_1", "eta_2"}

\* the final type environments of the model: q is an array, the samples are tracked
FinalTypes ==
    {[name \in GeneratorNames |->
        [aligned |-> IF name \in tracked \cup {"q", "eta_1", "eta_2"} THEN "*" ELSE "0",
         is_array |-> name = "q"]] : tracked \in {{"T", "z"}, {"i"}}}

ProgramStatements ==
    {Assign("z", {}), Assign("z", {ArrayRef("q", "i"), ID("eta_1")}), Assign("T", {ID("z")}),
     Assign("i", {ID("i")}),
     Sample("eta_1"), Sample("eta_2"),
     IfAssert({ID("T"), ID("eta_1")}), IfAssert({ID("z")}),
     IfAssert({ArrayRef("q", "i"), ID("eta_2")}),
     Output({ID("z")}),
     EndWhile({ID("T")}), EndWhile({ID("i")})}

\* C scoping: a name is used after its declaration only, and a sample is declared once
DeclaredBefore(statements, j) ==
    GeneratorParameters \cup {statements[m].left : m \in {n \in 1..(j - 1) :
                                  statements[n].stmt \in {"Assign", "Sample"}}}

Compiles(statements) ==
    \A j \in 1..Len(statements) :
        /\ UNION {IdentifiersOf(nd) : nd \in statements[j].expr}
              \subseteq DeclaredBefore(statements, j)
        /\ statements[j].stmt = "Sample" =>
              statements[j].left \notin DeclaredBefore(statements, j)
        /\ statements[j].stmt = "Assign" => statements[j].left \notin {"eta_1", "eta_2"}

Programs(longest) ==
    {statements \in UNION {[1..n -> ProgramStatements] : n \in 0..longest} :
        Compiles(statements)}

\* random_distance.py:139-142: the parameters are declarations without initializer
AfterParameters ==
    Generator([name \in GeneratorParameters |-> {}], <<>>, <<>>, {})

InitGen ==
    /\ program \in Programs(MaxStatements)
    /\ final_types \in FinalTypes
    /\ depends = AfterParameters.depends
    /\ live_variable = <<>>
    /\ self_templates = <<>>
    /\ random_variables = {}
    /\ vpc = 0
    /\ IdleCegis /\ IdleKlee /\ IdleMerge /\ IdleTransform /\ IdleCost /\ IdleRelated /\ IdleMacro /\ IdlePre /\ IdleMain /\ IdleDriver /\ IdleExec /\ IdleAssume /\ IdleSampling

\* the visitor reaches the next statement
VisitNext ==
    /\ vpc < Len(program)
    /\ \E g \in {visit_statement(
                    Generator(depends, live_variable, self_templates, random_variables),
                    final_types, program[vpc + 1])} :
          /\ depends' = g.depends
          /\ live_variable' = g.live_variable
          /\ self_templates' = g.templates
          /\ random_variables' = g.random_variables
    /\ vpc' = vpc + 1
    /\ UNCHANGED <<program, final_types>>
    /\ UNCHANGED notGen

NextGen == VisitNext

-----------------------------------------------------------------------------
(* main: the command line *)

\* setup.py:27-31: the generated script calls sys.exit(main());
\* __main__.py:180-181 (python -m checkdp, as scripts/benchmark.py:25 starts it): main()
Launchers == {"console_script", "module"}

Arguments ==
    [loglevel : {"debug", "verbose"},      \* __main__.py:50-53, "verbose" is no level
     transform_only : BOOLEAN,             \* __main__.py:66-68
     psi_source : BOOLEAN,                 \* __main__.py:58-61, given or None
     smartsum : BOOLEAN]                   \* __main__.py:160, 'smartsum' in the file name

\* core.py:125: the lines a concrete run printed
OutputLines == UNION {[1..n -> {"1"}] : n \in 0..MaxOutputLines}

\* what core.run returns: (True, alignments) or (False, counterexample, bad_outputs)
RunResults ==
    {[is_alignment |-> TRUE, bad_outputs |-> <<>>]}
    \cup {[is_alignment |-> FALSE, bad_outputs |-> <<first, second>>] :
             first \in OutputLines, second \in OutputLines}

\* the probabilities PSI computes, in units of 1 / MaxProbability
Probabilities == 0..MaxProbability

\* __main__.py:152-158
ratio(pa, pb) ==
    IF pa = 0 /\ pb = 0 THEN <<0, 1>>
    ELSE IF pa > pb THEN <<pa, pb>>       \* pb = 0: ZeroDivisionError, float('inf')
    ELSE <<pb, pa>>

\* __main__.py:160-161: ratio > e ** check_ratio, with e = 2.718... and e * e = 7.389...
exceeds_bound(r, check_ratio) ==
    IF r[2] = 0 THEN TRUE
    ELSE IF check_ratio = 2 THEN 1000 * r[1] > 7389 * r[2]
    ELSE 1000 * r[1] > 2718 * r[2]

InitMain ==
    /\ launcher \in Launchers
    /\ arguments \in Arguments
    /\ run_result = <<>>
    /\ output_index = 0
    /\ final_bad_output = 0
    /\ raised_in = "none"
    /\ main_returned = "none"
    /\ exit_code = -1
    /\ main_pc = "start"
    /\ IdleCegis /\ IdleKlee /\ IdleMerge /\ IdleTransform /\ IdleCost /\ IdleRelated /\ IdleMacro /\ IdlePre /\ IdleGen /\ IdleDriver /\ IdleExec /\ IdleAssume /\ IdleSampling

\* a return statement of main, and an exception that leaves it
return(value) ==
    /\ main_returned' = value
    /\ main_pc' = "returned"
    /\ UNCHANGED raised_in

raises(step) ==
    /\ raised_in' = step
    /\ main_pc' = "raised"
    /\ UNCHANGED main_returned

\* __main__.py:74-82
SetLogLevel ==
    /\ main_pc = "start"
    /\ IF arguments.loglevel = "debug"
       THEN main_pc' = "syntax_check" /\ UNCHANGED <<main_returned, raised_in>>
       ELSE return("1")
    /\ UNCHANGED <<launcher, arguments, run_result, output_index, final_bad_output, exit_code>>
    /\ UNCHANGED notMain

\* __main__.py:99-112: clang accepts the source, or Clang._compile raises ValueError
SyntaxCheck ==
    /\ main_pc = "syntax_check"
    /\ \/ main_pc' = "transform" /\ UNCHANGED <<main_returned, raised_in>>
       \/ raises("syntax_check")
    /\ UNCHANGED <<launcher, arguments, run_result, output_index, final_bad_output, exit_code>>
    /\ UNCHANGED notMain

\* __main__.py:114-123: transform returns the template, or the preprocessor or the
\* transformer raises
Transform ==
    /\ main_pc = "transform"
    /\ \/ IF arguments.transform_only
          THEN return("0")
          ELSE main_pc' = "run" /\ UNCHANGED <<main_returned, raised_in>>
       \/ raises("transform")
    /\ UNCHANGED <<launcher, arguments, run_result, output_index, final_bad_output, exit_code>>
    /\ UNCHANGED notMain

\* __main__.py:124-141
Run ==
    /\ main_pc = "run"
    /\ \/ \E r \in RunResults :
            /\ run_result' = r
            /\ IF r.is_alignment THEN return("0")
               ELSE IF arguments.psi_source
               THEN main_pc' = "validate" /\ UNCHANGED <<main_returned, raised_in>>
               ELSE return("None")
            /\ output_index' = IF r.is_alignment THEN 0 ELSE 1
       \/ raises("run") /\ UNCHANGED <<run_result, output_index>>
    /\ UNCHANGED <<launcher, arguments, final_bad_output, exit_code>>
    /\ UNCHANGED notMain

\* __main__.py:147-163, one bad output. For an output without lines PSI.validate writes
\* 'return (,r.length);' (validate.py:98-101), PSI reports the error and validate raises
\* ValueError (validate.py:113-114).
Validate ==
    /\ main_pc = "validate"
    /\ output_index <= Len(run_result.bad_outputs)
    /\ \/ /\ run_result.bad_outputs[output_index] # <<>>
          /\ \E pa \in Probabilities, pb \in Probabilities :
                IF exceeds_bound(ratio(pa, pb), IF arguments.smartsum THEN 2 ELSE 1)
                THEN /\ final_bad_output' = output_index
                     /\ output_index' = Len(run_result.bad_outputs) + 1     \* break
                ELSE /\ output_index' = output_index + 1
                     /\ UNCHANGED final_bad_output
          /\ UNCHANGED <<main_pc, main_returned, raised_in>>
       \/ /\ raises("validate")
          /\ UNCHANGED <<output_index, final_bad_output>>
    /\ UNCHANGED <<launcher, arguments, run_result, exit_code>>
    /\ UNCHANGED notMain

\* __main__.py:164-173: the end of the function returns None. The test of line 165 is
\* the truth value of the output, a list of lines; an output that validated has lines.
Validated ==
    /\ main_pc = "validate"
    /\ output_index > Len(run_result.bad_outputs)
    /\ IF final_bad_output # 0 THEN return("None") ELSE return("1")
    /\ UNCHANGED <<launcher, arguments, run_result, output_index, final_bad_output, exit_code>>
    /\ UNCHANGED notMain

\* sys.exit(value): None and 0 are success, 1 is the status 1
sys_exit(value) == IF value = "1" THEN 1 ELSE 0

\* the interpreter ends: an uncaught exception prints the traceback and exits with 1;
\* the console script passes what main returned to sys.exit, python -m checkdp drops it
Exit ==
    /\ main_pc \in {"returned", "raised"}
    /\ exit_code' = IF main_pc = "raised" THEN 1
                    ELSE IF launcher = "console_script" THEN sys_exit(main_returned)
                    ELSE 0
    /\ main_pc' = "exited"
    /\ UNCHANGED <<launcher, arguments, run_result, output_index, final_bad_output,
                   raised_in, main_returned>>
    /\ UNCHANGED notMain

NextMain ==
    \/ SetLogLevel
    \/ SyntaxCheck
    \/ Transform
    \/ Run
    \/ Validate
    \/ Validated
    \/ Exit

-----------------------------------------------------------------------------
(* Specifications *)

Init == InitCegis
Next == NextCegis
Spec == Init /\ [][Next]_vars

SpecKlee == InitKlee /\ [][NextKlee]_vars

SpecMerge == InitMerge /\ [][NextMerge]_vars

SpecTransform == InitTransform /\ [][NextTransform]_vars

\* the visitor is a sequential program: once it visits a statement, a step that can be
\* taken is taken
SpecTransformFair == SpecTransform /\ WF_vars(VisitStatement)

SpecCost == InitCost /\ [][NextCost]_vars

SpecRelated == InitRelated /\ [][NextRelated]_vars

SpecMacro == InitMacro /\ [][NextMacro]_vars

SpecPre == InitPre /\ [][NextPre]_vars

SpecGen == InitGen /\ [][NextGen]_vars

SpecMain == InitMain /\ [][NextMain]_vars

-----------------------------------------------------------------------------
(* The search-mode driver of Template.fill: one path of its symbolic execution *)

\* The int of the generated C program; IntMax stands for INT_MAX.
IntMin == -IntMax - 1
Ints == IntMin..IntMax

\* Signed addition of C: a sum outside the range is undefined behaviour, so any int
\* may come out of it.
Add(a, b) == IF a + b \in Ints THEN {a + b} ELSE Ints

\* template.py:161-163, 187, 250: '<=' when the concretes are inputs (the search is for
\* alignments), '>' when they are alignments (the search is for inputs)
Operator(has_inputs, has_alignments) ==
    IF has_inputs /\ ~has_alignments THEN "<="
    ELSE IF has_alignments /\ ~has_inputs THEN ">"
    ELSE "<"

\* the condition `left op right` of the generated C
Holds(left, op, right) ==
    IF op = "<=" THEN left <= right
    ELSE IF op = ">" THEN left > right
    ELSE left < right

\* an ASSERT that returns the goal itself
ASSERT_returnGoal(goal) == {goal}

\* template.py:23, 347: #define ASSERT(cond) if (!(cond)) { return (PENALTY + 1); },
\* PENALTY replaced by the goal
ASSERT_return(goal) == Add(goal, 1)

\* What one run of the transformed function does on a concrete: some inserted assertion
\* fails (base.py:324, 359, 390), or none does and the run ends at the final
\* `return v_epsilon` (base.py:399).
Execution(assert_fails, cost_value) == [assert_fails |-> assert_fails, v_epsilon |-> cost_value]
Executions == {Execution(TRUE, 0)} \cup {Execution(FALSE, v) : v \in 0..IntMax}

\* the value of the call of template.py:318
transformed_function(execution, goal) ==
    IF execution.assert_fails THEN ASSERT_return(goal) ELSE {execution.v_epsilon}

\* the goals of the annotation, after the scaling of Preprocessor.process
Goals == 0..IntMax

\* core.py:36: fill(concretes, 5) with inputs or alignments as concretes
InitDriver ==
    /\ \E has_inputs \in BOOLEAN : operator = Operator(has_inputs, ~has_inputs)
    /\ self_goal \in Goals
    /\ executions \in UNION {[1..k -> Executions] : k \in 1..MaxConcretes}
    /\ symbolic_cost = <<>>
    /\ costs = <<>>
    /\ dpc = "symbolic"
    /\ IdleCegis /\ IdleKlee /\ IdleMerge /\ IdleTransform /\ IdleCost /\ IdleRelated /\ IdleMacro /\ IdlePre /\ IdleGen /\ IdleMain /\ IdleExec /\ IdleAssume /\ IdleSampling

\* template.py:144, 255-260: int symbolic_cost[len(concretes)], made symbolic
MakeSymbolic ==
    /\ dpc = "symbolic"
    /\ symbolic_cost' \in [1..Len(executions) -> Ints]
    /\ dpc' = "call"
    /\ UNCHANGED <<operator, self_goal, executions, costs>>
    /\ UNCHANGED notDriver

\* template.py:307-325: the initializers of concrete i, the call, and the test of its
\* cost; the next call is inside the braces of the test (closed at lines 340-342)
FunctionCall ==
    /\ dpc = "call"
    /\ \E c \in transformed_function(executions[Len(costs) + 1], self_goal) :
          /\ costs' = Append(costs, c)
          /\ dpc' = IF ~Holds(c, operator, self_goal) THEN "exit"
                    ELSE IF Len(costs) + 1 = Len(executions) THEN "compare"
                    ELSE "call"
    /\ UNCHANGED <<operator, self_goal, executions, symbolic_cost>>
    /\ UNCHANGED notDriver

\* template.py:328-337: inside the innermost test, klee_assert(0) under the equality of
\* every cost with its symbolic cost
CompareCosts ==
    /\ dpc = "compare"
    /\ dpc' = IF \A i \in 1..Len(executions) : costs[i] = symbolic_cost[i]
              THEN "assert" ELSE "exit"
    /\ UNCHANGED <<operator, self_goal, executions, symbolic_cost, costs>>
    /\ UNCHANGED notDriver

NextDriver ==
    \/ MakeSymbolic
    \/ FunctionCall
    \/ CompareCosts

SpecDriver == InitDriver /\ [][NextDriver]_vars

-----------------------------------------------------------------------------
(* Transformer._assign (T-Asgn) on one statement, and the execution of what it emits *)

\* an integer constant of the program
Number(value) == [k |-> "Constant", value |-> value]

\* the variables of the statement: x is assigned, y is another scalar
AssignNames == {"x", "y"}
DistanceVariable(version, name) == version \o "_" \o name
MemoryNames ==
    AssignNames \cup {DistanceVariable(v, n) : v \in {"aligned", "shadow"}, n \in AssignNames}

\* the right-hand sides: a constant, a variable, or one operation on two of them
Operands == {Number(2), ID("x"), ID("y")}
RightHandSides ==
    Operands \cup {BinaryOp(op, l, r) : op \in {"+", "-", "*"}, l \in Operands, r \in Operands}

RECURSIVE Eval(_, _)
\* the value of an expression of the generated C
Eval(e, mem) ==
    CASE e.k = "Constant" -> e.value
      [] e.k = "ID" -> mem[e.name]
      [] e.k = "BinaryOp" ->
            CASE e.op = "+" -> Eval(e.left, mem) + Eval(e.right, mem)
              [] e.op = "-" -> Eval(e.left, mem) - Eval(e.right, mem)
              [] e.op = "*" -> Eval(e.left, mem) * Eval(e.right, mem)

RECURSIVE distance(_, _, _)
\* utils.py:120-159, DistanceGenerator.visit for one track, as the expression the
\* returned string denotes: '0' for a constant (visit_Constant), the track of a name or
\* its distance variable in parentheses when the track is '*' (visit_ID), and
\* '<left> <op> <right>' for an operation (visit_BinaryOp)
distance(types, e, track) ==
    CASE e.k = "Constant" -> Number(0)
      [] e.k = "ID" ->
            IF types[e.name][track] = "*" THEN ID(DistanceVariable(track, e.name))
            ELSE Number(0)
      [] e.k = "BinaryOp" ->
            BinaryOp(e.op, distance(types, e.left, track), distance(types, e.right, track))

\* utils.py:124-129, 158: str(simplify(expr)) is '0' exactly for an expression that is
\* zero for all values of its variables (the expressions here are polynomials of degree
\* at most two, which three values per variable tell from zero)
is_zero(d) ==
    \A mem \in [ExprNames(d) -> -1..1] : Eval(d, mem) = 0

\* the statement `lvalue = rvalue;` the transformer inserts
Insertion(lvalue, rvalue) == [lvalue |-> lvalue, rvalue |-> rvalue]

\* base.py:111 with the test of the prior track left out
aligned_update_neededNoPrior(var_aligned, aligned) == ~is_zero(aligned)

\* base.py:111: var_aligned == '*' or aligned != '0'
aligned_update_needed(var_aligned, aligned) == var_aligned = "*" \/ ~is_zero(aligned)

\* the statement of base.py:126-127 with the operands of the subtraction exchanged
shadow_before_assignmentReversed(name, expression) ==
    Insertion(DistanceVariable("shadow", name),
              BinaryOp("-", expression,
                       BinaryOp("+", ID(name), ID(DistanceVariable("shadow", name)))))

\* base.py:118-127: x^shadow = x + x^shadow - e
shadow_before_assignment(name, expression) ==
    Insertion(DistanceVariable("shadow", name),
              BinaryOp("-", BinaryOp("+", ID(name), ID(DistanceVariable("shadow", name))),
                       expression))

\* base.py:103-134, Transformer._assign: the statements inserted before and after the
\* node and the type environment it leaves
T_Asgn(types, name, expression, pc_, shadow_enabled, level) ==
    LET var == types[name]
        aligned == distance(types, expression, "aligned")
        shadow == distance(types, expression, "shadow")
        after_aligned ==
            IF level = 0 /\ aligned_update_needed(var.aligned, aligned)
            THEN <<Insertion(DistanceVariable("aligned", name), aligned)>> ELSE <<>>
        before_shadow ==
            IF level = 0 /\ shadow_enabled /\ pc_
            THEN <<shadow_before_assignment(name, expression)>> ELSE <<>>
        \* _insert_at(after=True) puts the later insertion directly behind the node
        after_shadow ==
            IF level = 0 /\ shadow_enabled /\ ~pc_ /\ (var.shadow = "*" \/ ~is_zero(shadow))
            THEN <<Insertion(DistanceVariable("shadow", name), shadow)>> ELSE <<>>
    IN  [before |-> before_shadow,
         after |-> after_shadow \o after_aligned,
         types |-> [types EXCEPT ![name] =
                      [aligned |-> IF ~is_zero(aligned) \/ var.aligned = "*" THEN "*" ELSE "0",
                       shadow |-> IF pc_ \/ ~is_zero(shadow) \/ var.shadow = "*"
                                  THEN "*" ELSE "0"]]]

\* the tracks a scalar can have when the statement is reached
Tracks2 == [aligned : {"0", "*"}, shadow : {"0", "*"}]

\* The states in which the statement can be reached: base.py:164-173 declares every
\* distance variable with the value 0, and only an update the transformer inserts changes
\* it, so the distance variable of a track that is still '0' holds 0.
Memories(types) ==
    {mem \in [MemoryNames -> -MaxValue..MaxValue] :
        \A n \in AssignNames : \A v \in {"aligned", "shadow"} :
            /\ mem[DistanceVariable(v, n)] >= 0
            /\ types[n][v] = "0" => mem[DistanceVariable(v, n)] = 0}

\* the transformer (base.py:46-63) in front of an assignment to x, inside or outside a
\* loop and a shadow-divergent branch; _update_pc keeps pc false without shadow execution
InitAssign ==
    /\ node \in {Assignment("x", e) : e \in RightHandSides}
    /\ enable_shadow \in BOOLEAN
    /\ t_pc \in {FALSE, enable_shadow}
    /\ type_system \in [AssignNames -> Tracks2]
    /\ loop_level \in {0, 1}
    /\ before_pc = FALSE
    /\ before_types = NoTypes
    /\ fixed_types = NoTypes
    /\ branch_types = NoBranchTypes
    /\ inserted = NoInserted
    /\ tstep = "constructed"
    /\ memory \in Memories(type_system)
    /\ IdleCegis /\ IdleKlee /\ IdleMerge /\ IdleCost /\ IdleRelated /\ IdleMacro /\ IdlePre /\ IdleGen /\ IdleMain /\ IdleDriver /\ IdleAssume /\ IdleSampling

\* base.py:178-181, visit_Assignment
VisitAssignment ==
    /\ tstep = "constructed"
    /\ \E out \in {T_Asgn(type_system, node.name, node.rvalue, t_pc, enable_shadow,
                          loop_level)} :
          /\ inserted' = [before |-> out.before, after |-> out.after]
          /\ type_system' = out.types
    /\ tstep' = "visited"
    /\ UNCHANGED <<node, enable_shadow, t_pc, before_pc, before_types, fixed_types,
                   loop_level, branch_types, memory>>
    /\ UNCHANGED notAssign

RECURSIVE Execute(_, _)
\* the assignments of a block, one after the other
Execute(statements, mem) ==
    IF statements = <<>> THEN mem
    ELSE Execute(Tail(statements),
                 [mem EXCEPT ![Head(statements).lvalue] = Eval(Head(statements).rvalue, mem)])

\* The transformed function runs the statements the transformer left at loop level 0:
\* the insertions before the assignment, the assignment, the insertions after it.
RunAssignment ==
    /\ tstep = "visited"
    /\ loop_level = 0
    /\ memory' = Execute(inserted.before \o <<Insertion(node.name, node.rvalue)>>
                            \o inserted.after, memory)
    /\ tstep' = "executed"
    /\ UNCHANGED <<node, enable_shadow, t_pc, type_system, before_pc, before_types,
                   fixed_types, loop_level, branch_types, inserted>>
    /\ UNCHANGED notAssign

NextAssign ==
    \/ VisitAssignment
    \/ RunAssignment

SpecAssign == InitAssign /\ [][NextAssign]_vars

-----------------------------------------------------------------------------
(* Template.fill, input search under ONE_DIFFER: the assumptions on the symbolic values *)

\* template.py:203-204: ASSUME(q[i] >= -10); ASSUME(q[i] <= 10);
QueryMin == -10
QueryMax == 10

\* the indexes of the query array
QueryIndexes == 0..(QuerySize - 1)

\* the values KLEE tries for an element of the query: the two ends of the admitted range,
\* their neighbours outside it, and 0
QueryValues == {QueryMin - 1, QueryMin, 0, QueryMax, QueryMax + 1}

\* the assumptions without the else-branch of the test on CHECKDP_index
one_differNoElse(q, distance_q, index) ==
    /\ index >= 0
    /\ index < QuerySize
    /\ \A i \in QueryIndexes :
          /\ q[i] >= QueryMin
          /\ q[i] <= QueryMax
          /\ index = i => (distance_q[i] >= -1 /\ distance_q[i] <= 1)

\* template.py:199-214: every klee_assume of the ONE_DIFFER block holds
one_differ(q, distance_q, index) ==
    /\ index >= 0
    /\ index < QuerySize
    /\ \A i \in QueryIndexes :
          /\ q[i] >= QueryMin
          /\ q[i] <= QueryMax
          /\ IF index = i
             THEN distance_q[i] >= -1 /\ distance_q[i] <= 1
             ELSE distance_q[i] = 0

InitAssume ==
    /\ symbolic = <<>>
    /\ path = "start"
    /\ IdleCegis /\ IdleKlee /\ IdleMerge /\ IdleTransform /\ IdleCost /\ IdleRelated /\ IdleMacro /\ IdlePre /\ IdleGen /\ IdleMain /\ IdleDriver /\ IdleExec /\ IdleSampling

\* template.py:265-269, 279-284, 291-300: klee_make_symbolic on CHECKDP_index, on the query
\* and on its aligned distance; a path of KLEE has any value for each
MakeInputsSymbolic ==
    /\ path = "start"
    /\ symbolic' \in [query : [QueryIndexes -> QueryValues],
                      aligned_query : [QueryIndexes -> -MaxDistance..MaxDistance],
                      index : -1..QuerySize]
    /\ path' = "symbolic"
    /\ UNCHANGED notAssume

\* template.py:25, 199-214: the path goes on when every klee_assume holds
PathAdmitted ==
    /\ path = "symbolic"
    /\ one_differ(symbolic.query, symbolic.aligned_query, symbolic.index)
    /\ path' = "admitted"
    /\ UNCHANGED symbolic
    /\ UNCHANGED notAssume

\* a klee_assume that does not hold ends the path
PathTerminated ==
    /\ path = "symbolic"
    /\ ~one_differ(symbolic.query, symbolic.aligned_query, symbolic.index)
    /\ path' = "terminated"
    /\ UNCHANGED symbolic
    /\ UNCHANGED notAssume

NextAssume ==
    \/ MakeInputsSymbolic
    \/ PathAdmitted
    \/ PathTerminated

SpecAssume == InitAssume /\ [][NextAssume]_vars

-----------------------------------------------------------------------------
(* PostProcessor.process, Template.fill and the reads of the sample array *)

\* a while loop around the sampling: its condition compares a counter with the size
\* parameter (it runs `size` times), or with a constant (it runs `trips` times)
SizedLoop == [sized |-> TRUE, trips |-> 0]
ConstantLoop(trips) == [sized |-> FALSE, trips |-> trips]
LoopKinds == {SizedLoop} \cup {ConstantLoop(t) : t \in 0..MaxTrips}

RECURSIVE LoopNests(_)
LoopNests(depth) ==
    IF depth = 0 THEN {<<>>}
    ELSE LoopNests(depth - 1)
            \cup {<<l>> \o inner : l \in LoopKinds, inner \in LoopNests(depth - 1)}

RECURSIVE visit_While(_, _)
\* postprocess.py:60-76: visit_While raises the level inside a loop whose condition names
\* the size parameter; visit_Decl at the sampling adds 1 to the constants at level 0 and
\* the level to the loops otherwise
visit_While(loops, sized_loop_level) ==
    IF loops = <<>>
    THEN IF sized_loop_level = 0 THEN [loops |-> 0, constants |-> 1]
         ELSE [loops |-> sized_loop_level, constants |-> 0]
    ELSE visit_While(Tail(loops),
                     IF Head(loops).sized THEN sized_loop_level + 1 ELSE sized_loop_level)

RECURSIVE Samplings(_, _)
\* how often the statement inside the loops runs
Samplings(loops, n) ==
    IF loops = <<>> THEN 1
    ELSE (IF Head(loops).sized THEN n ELSE Head(loops).trips) * Samplings(Tail(loops), n)

\* what the actions on the sample array leave alone
notSampling == <<cegisVars, kleeVars, mergeVars, transformVars, relatedVars, macroVars,
                 preVars, genVars, mainVars, driverVars, execVars, assumeVars>>

\* postprocess.py:12-19 and base.py:161 (int SAMPLE_INDEX = 0): a function with one
\* sampling statement inside some loops, to be run on a query of some length
InitSampling ==
    /\ loops_around \in LoopNests(MaxLoopDepth)
    /\ size \in 1..MaxSize
    /\ sample_array_size_loops = 0
    /\ sample_array_size_constants = 0
    /\ sample_array_size = 0
    /\ overrun = FALSE
    /\ spc = "start"
    /\ IdleCegis /\ IdleKlee /\ IdleMerge /\ IdleTransform /\ IdleCost /\ IdleRelated /\ IdleMacro /\ IdlePre /\ IdleGen /\ IdleMain /\ IdleDriver /\ IdleExec /\ IdleAssume

\* postprocess.py:78-84
PostProcess ==
    /\ spc = "start"
    /\ \E counted \in {visit_While(loops_around, 0)} :
          /\ sample_array_size_loops' = counted.loops
          /\ sample_array_size_constants' = counted.constants
    /\ spc' = "processed"
    /\ UNCHANGED <<loops_around, size, sample_array_size, overrun>>
    /\ UNCHANGED costVars
    /\ UNCHANGED notSampling

\* template.py:129, 150-151: int SAMPLE_ARRAY[<sample_array_size>];
FillSampleArray ==
    /\ spc = "processed"
    /\ sample_array_size' = sample_array_size_loops * size + sample_array_size_constants
    /\ spc' = "running"
    /\ UNCHANGED <<loops_around, size, sample_array_size_loops, sample_array_size_constants,
                   overrun>>
    /\ UNCHANGED costVars
    /\ UNCHANGED notSampling

\* base.py:260-262: eta = SAMPLE_ARRAY[SAMPLE_INDEX]; SAMPLE_INDEX = SAMPLE_INDEX + 1;
ReadSample ==
    /\ spc = "running"
    /\ sample_index < Samplings(loops_around, size)
    /\ overrun' = (overrun \/ sample_index >= sample_array_size)
    /\ sample_index' = sample_index + 1
    /\ UNCHANGED <<loops_around, size, sample_array_size_loops, sample_array_size_constants,
                   sample_array_size, spc>>
    /\ UNCHANGED <<v_epsilon, selector, aligned_eta, inverse_scale>>
    /\ UNCHANGED notSampling

\* the loops have ended: return V_EPSILON (base.py:399)
FunctionReturns ==
    /\ spc = "running"
    /\ sample_index = Samplings(loops_around, size)
    /\ spc' = "returned"
    /\ UNCHANGED <<loops_around, size, sample_array_size_loops, sample_array_size_constants,
                   sample_array_size, overrun>>
    /\ UNCHANGED costVars
    /\ UNCHANGED notSampling

NextSampling ==
    \/ PostProcess
    \/ FillSampleArray
    \/ ReadSample
    \/ FunctionReturns

SpecSampling == InitSampling /\ [][NextSampling]_vars

-----------------------------------------------------------------------------
(* Claims about core.run *)

\* C1: whenever an input search yields no model, run returns (PROVED, alignments) and
\* the last element of the returned list proves privacy on its own: no admissible input
\* has a cost above the goal under that last alignment.
C1_LastAlignmentProves ==
    pc = "proved" =>
        /\ returned = possible_alignments
        /\ \A i \in Inputs : ~exceeds[i][Last(returned)]

\* C2: run leaves the loop towards COUNTEREXAMPLE only directly after an alignment search
\* in final validation returned no model; the counterexample reported is the last element
\* of found_counterexamples, it was the single concrete of that search, and no alignment
\* of the search space brings its cost within the goal.
C2_CounterexampleAfterFinalValidation ==
    pc \in {"break", "counterexample"} =>
        /\ search_object = "alignments"
        /\ is_final_validate
        /\ result = None
        /\ found_counterexamples # <<>>
        /\ concretes = <<Last(found_counterexamples)>>
        /\ \A a \in Alignments : exceeds[Last(found_counterexamples)][a]
        /\ pc = "counterexample" => returned = <<Last(found_counterexamples)>>

\* A run that ends with a counterexample after two inputs had been collected, so that
\* the final search was narrowed to the last of them.
C2_Witness ==
    /\ pc = "counterexample"
    /\ Len(found_counterexamples) >= 2

\* C4: the executor's scratch directory is gone between two consecutive iterations and
\* no longer exists once run has ended, whether it returned PROVED, left the loop with a
\* counterexample or an external tool raised an error.
C4_ScratchRemovedOnEveryExit ==
    /\ (pc = "loop" /\ iterations > 0) => ~output_dir_exists
    /\ pc \in {"proved", "break", "counterexample", "error"} => ~output_dir_exists

-----------------------------------------------------------------------------
(* Claims about KLEE._async_run *)

\* C3: by the time the results are read, every backend process other than the winner has
\* ended (killed, or exited on its own) and has been awaited, and the results come from
\* the winner's output and output directory only.
C3_LosersReapedWinnerRead ==
    kpc \in {"read", "error"} =>
        /\ winner \in done
        /\ \A b \in BackendSet \ {winner} :
              /\ proc[b] \in {"exited", "killed"}
              /\ b \in pending => b \in awaited
              /\ b \notin pending => b \in done /\ task_done[b]
        /\ extracted.from = winner
        /\ extracted.content = klee_output[winner]

\* The results were read after a loser that was still running had been killed.
C3_Witness ==
    /\ kpc = "read"
    /\ \E b \in BackendSet \ {winner} : proc[b] = "killed" /\ b \in awaited

-----------------------------------------------------------------------------
(* Claims about the type environment *)

\* C5: merge is commutative, associative and idempotent, it yields per name and track
\* "*" if either side is "*" or the sides differ and the common value otherwise, and
\* the environment after an if is the same whichever branch is merged into which.
C5_MergeLaws ==
    /\ mpc \in {"merged", "if_merged"} =>
          /\ merge_out.ab = merge_out.ba
          /\ merge_out.ab_c = merge_out.a_bc
          /\ merge_out.aa = env_a
          /\ \A n \in DOMAIN env_a :
                /\ merge_out.ab[n].aligned = "*" <=>
                      (env_a[n].aligned # env_b[n].aligned \/ env_a[n].aligned = "*"
                         \/ env_b[n].aligned = "*")
                /\ merge_out.ab[n].aligned # "*" => merge_out.ab[n].aligned = env_a[n].aligned
                /\ merge_out.ab[n].shadow = "*" <=>
                      (env_a[n].shadow # env_b[n].shadow \/ env_a[n].shadow = "*"
                         \/ env_b[n].shadow = "*")
                /\ merge_out.ab[n].shadow # "*" => merge_out.ab[n].shadow = env_a[n].shadow
    /\ mpc = "if_merged" =>
          /\ merge_out.if_ab = merge_out.if_ba
          /\ merge_out.if_ab = merge_out.ab

\* Three environments that differ pairwise on an expression track have been merged.
C5_Witness ==
    /\ mpc = "if_merged"
    /\ env_a["x"].aligned \in ExprTracks
    /\ env_b["x"].aligned \in ExprTracks
    /\ env_a["x"].aligned # env_b["x"].aligned
    /\ env_c["x"].aligned = env_a["x"].aligned
    /\ merge_out.ab_c["x"].aligned = "*"

-----------------------------------------------------------------------------
(* Claims about the transformer *)

\* the lattice order on distances: a name not declared yet below "0" below "*"
DistanceBelow(a, b) == a = b \/ b = "*" \/ a = NoDistance

TypesBelow(lower, upper) ==
    \A n \in DOMAIN lower :
        /\ DistanceBelow(lower[n].aligned, upper[n].aligned)
        /\ DistanceBelow(lower[n].shadow, upper[n].shadow)

\* C6: the fixed-point iteration of visit_While terminates (by reaching the fixed point
\* or by an exception the body raises), no nested loop runs out of iterations, and the
\* environment an iteration ends with is above the one it began with, for every name
\* and track.
C6_FixedPointMonotoneAndTerminates ==
    /\ [](tstep # "diverged")
    /\ [](tstep = "iterate" /\ fixed_types # NoTypes => TypesBelow(fixed_types, type_system))
    /\ (tstep = "start" ~> tstep \in {"done", "raised"})

\* A loop whose iteration raised a track and that then reached its fixed point.
C6_Witness ==
    /\ tstep = "done"
    /\ node.k = "While"
    /\ fixed_types # before_types
    /\ \E n \in Names : before_types[n].aligned = "0" /\ fixed_types[n].aligned = "*"

\* the tracks the instrumentation rule is stated for: the aligned track always, the shadow
\* track while shadow execution is enabled and has not diverged (under a diverged pc the
\* shadow branch maintains the shadow distances)
InstrumentedTracks ==
    {"aligned"} \cup
        (IF enable_shadow /\ ~update_pc(before_pc, before_types, node.cond) THEN {"shadow"} ELSE {})

\* every concrete distance of `types` that the merge turned into "*" has its assignment
\* among `statements`
Reconciled(types, merged, statements) ==
    \A n \in DOMAIN types : \A track \in InstrumentedTracks :
        (merged[n][track] = "*" /\ types[n][track] \notin {"*", NoDistance})
            => [version |-> track, name |-> n, distance |-> types[n][track]] \in statements

\* C7: after visit_If or visit_While completes at loop level 0, for every name and track
\* whose merged value is "*" while a branch's (the pre-loop, the post-body) environment
\* holds a concrete distance d, the assignment <track>_<name> = d has been appended at
\* the end of that branch (before the loop, at the end of the loop body); for the aligned
\* track with shadow execution enabled and with it disabled.
C7_ReconcilingUpdates ==
    tstep = "done" =>
        /\ node.k = "If" =>
              /\ Reconciled(branch_types.true_types, type_system, inserted.true_end)
              /\ Reconciled(branch_types.false_types, type_system, inserted.false_end)
        /\ node.k = "While" =>
              /\ Reconciled(before_types, type_system, inserted.before_loop)
              /\ Reconciled(branch_types.after_visit, type_system, inserted.body_end)

-----------------------------------------------------------------------------
(* Claims about the cost *)

\* C8 as stated: every assignment to v_epsilon is an additive update with a non-negative
\* term, so with shadow execution enabled or disabled and for any selector values
\* v_epsilon never decreases from one sampling point to the next.
C8_CostNeverDecreases ==
    [][v_epsilon' >= v_epsilon]_vars

\* C8 amended: the assigned value is the sampling cost |aligned distance| * (1 / scale),
\* which is not negative, added to the previous v_epsilon when shadow execution is
\* disabled or the sample's selector is ALIGNED (v_epsilon does not decrease there), and
\* added to 0 when shadow execution is enabled and the selector is SHADOW (v_epsilon
\* restarts from the sampling cost and may decrease); v_epsilon is never negative.
C8_CostAdditiveUnlessShadowSelected ==
    [][sample_index' # sample_index =>
          /\ Abs(aligned_eta') * inverse_scale' >= 0
          /\ (~enable_shadow \/ selector' = SELECT_ALIGNED) =>
                /\ v_epsilon' = v_epsilon + Abs(aligned_eta') * inverse_scale'
                /\ v_epsilon' >= v_epsilon
          /\ (enable_shadow /\ selector' = SELECT_SHADOW) =>
                v_epsilon' = Abs(aligned_eta') * inverse_scale'
          /\ v_epsilon' >= 0]_vars

\* A sampling point with the shadow selector, after an earlier sampling point, has left
\* v_epsilon at the cost of a sample of negative distance.
C8_Witness ==
    /\ enable_shadow
    /\ sample_index >= 2
    /\ selector = SELECT_SHADOW
    /\ aligned_eta < 0
    /\ v_epsilon = Abs(aligned_eta) * inverse_scale
    /\ v_epsilon > 0

-----------------------------------------------------------------------------
(* Claims about related_inputs *)

\* C9: related_inputs(c) maps the query key to the elementwise sum q[i] + aligned_q[i],
\* leaves every other key (the aligned distance included) at its value in c and does not
\* modify c, so c and the result differ in at most the query key.
C9_RelatedInputs ==
    [][rpc = "call" /\ rpc' = "returned" =>
          LET c == heap[original_inputs]
              returned_map == heap'[related']
          IN  /\ Len(returned_map[query_variable]) = Len(c[query_variable])
              /\ \A i \in 1..Len(c[query_variable]) :
                    returned_map[query_variable][i] = c[query_variable][i] + c[aligned_query][i]
              /\ DOMAIN returned_map = DOMAIN c
              /\ \A key \in DOMAIN c \ {query_variable} : returned_map[key] = c[key]
              /\ heap'[original_inputs'] = c]_vars

\* related_inputs returned a query that differs from the counterexample's.
C9_Witness ==
    /\ rpc = "returned"
    /\ heap[related][query_variable] # heap[original_inputs][query_variable]
    /\ heap[related][aligned_query] = heap[original_inputs][aligned_query]

-----------------------------------------------------------------------------
(* Claims about generate_macros *)

\* the leaves of all macros, as <<macro, leaf>> positions
LeafPositions ==
    {p \in (DOMAIN inserted_macros) \X (0..(2 ^ (MaxConditions + 1))) :
        p[2] \in DOMAIN inserted_macros[p[1]].leaves}

LeafAt(p) == inserted_macros[p[1]].leaves[p[2]]

SlotsOf(leaf) == {leaf[slot] : slot \in DOMAIN leaf}

\* C10: generate_macros returns a tag list of length N such that the alignment-array
\* indices the macros refer to are exactly 0..N-1, each referred to in exactly one leaf
\* of one macro; in every RANDOM_DISTANCE leaf the first slot is tagged Constant and the
\* following v slots Variable; the number of Selector tags is the number of leaves of the
\* SELECTOR macros, and a sample without conditions has the literal ALIGNED for selector
\* and no Selector tag.
C10_SlotTagging ==
    gpc = "generated" =>
        LET N == Len(alignment_array_types)
        IN  /\ UNION {SlotsOf(LeafAt(p)) : p \in LeafPositions} = 0..(N - 1)
            /\ \A p \in LeafPositions :
                  /\ Cardinality(SlotsOf(LeafAt(p))) = Len(LeafAt(p))
                  /\ \A other \in LeafPositions \ {p} :
                        SlotsOf(LeafAt(p)) \cap SlotsOf(LeafAt(other)) = {}
            /\ \A p \in LeafPositions :
                  LET macro == inserted_macros[p[1]]
                      leaf == LeafAt(p)
                  IN  IF macro.name = "RANDOM_DISTANCE"
                      THEN /\ Len(leaf) = 1 + templates[macro.of].variables
                           /\ alignment_array_types[leaf[1] + 1] = "Constant"
                           /\ \A slot \in 2..Len(leaf) :
                                 alignment_array_types[leaf[slot] + 1] = "Variable"
                      ELSE /\ Len(leaf) = 1
                           /\ alignment_array_types[leaf[1] + 1] = "Selector"
            /\ Cardinality({i \in 1..N : alignment_array_types[i] = "Selector"})
                  = Cardinality({p \in LeafPositions : inserted_macros[p[1]].name = "SELECTOR"})
            /\ \A m \in DOMAIN inserted_macros :
                  LET macro == inserted_macros[m]
                  IN  /\ macro.literal <=>
                            (macro.name = "SELECTOR" /\ templates[macro.of].conditions = 0)
                      /\ macro.literal => macro.leaves = <<>>
                      /\ ~macro.literal => Len(macro.leaves) = 2 ^ templates[macro.of].conditions

\* Macros were generated with shadow execution for a sample without conditions and a
\* sample with conditions and variables.
C10_Witness ==
    /\ gpc = "generated"
    /\ enable_shadow
    /\ \E a, b \in DOMAIN templates :
          /\ templates[a].conditions = 0
          /\ templates[b].conditions = MaxConditions
          /\ templates[b].variables >= 1
    /\ \E m \in DOMAIN inserted_macros : inserted_macros[m].literal
    /\ \E i \in DOMAIN alignment_array_types : alignment_array_types[i] = "Selector"

-----------------------------------------------------------------------------
(* Claims about Preprocessor.process *)

\* the function process was asked to visit, when the file has one
HasTarget ==
    IF target_function = "None" THEN Len(file_ast) = 1
    ELSE \E k \in 1..Len(file_ast) : file_ast[k].name = target_function

Target ==
    IF target_function = "None" THEN file_ast[1]
    ELSE file_ast[CHOOSE k \in 1..Len(file_ast) :
                     /\ file_ast[k].name = target_function
                     /\ \A j \in 1..(k - 1) : file_ast[j].name # target_function]

\* the names that carry a distance annotation `name:<D,D>` with D in {0, *}
Annotated(func) ==
    {func.type_str[k].name : k \in {j \in 1..Len(func.type_str) : Matches(func.type_str[j])}}

Parameters(func) == {func.params[k].name : k \in 1..Len(func.params)}

\* C11: process raises whenever the annotated names are not exactly the parameters;
\* when it raises it returns no function and no type environment; when it returns, every
\* parameter has the (aligned, shadow) pair of its annotation (of the last one, if the
\* annotation names it more than once).
C11_AnnotatedExactlyParameters ==
    ppc = "done" /\ HasTarget =>
        /\ Annotated(Target) # Parameters(Target) => processed.status \in Raised
        /\ processed.status \in Raised =>
              processed.function = <<>> /\ processed.type_system = <<>>
        /\ processed.status \notin Raised =>
              /\ processed.status = "returned"
              /\ \A p \in Parameters(Target) :
                    \E k \in 1..Len(Target.type_str) :
                       /\ Target.type_str[k] =
                             TypeItem(p, processed.type_system[p].aligned,
                                         processed.type_system[p].shadow)
                       /\ Matches(Target.type_str[k])
                       /\ \A j \in (k + 1)..Len(Target.type_str) :
                             ~(Target.type_str[j].name = p /\ Matches(Target.type_str[j]))

\* a well-formed function of four parameters, one of them without a (well-formed)
\* annotation, was rejected
C11_Witness ==
    /\ ppc = "done"
    /\ HasTarget
    /\ Len(Target.params) = 4
    /\ Parameters(Target) \ Annotated(Target) = {"epsilon"}
    /\ Annotated(Target) \ Parameters(Target) = {}
    /\ \E k \in 1..Len(Target.type_str) : Target.type_str[k] = TypeItem("epsilon", "1", "0")
    /\ processed.status = "ValueError"

\* C12: without a target function, a file whose number of functions is not one makes
\* process raise ValueError; with a target function, process handles exactly the function
\* of that name, as if the file held nothing else, and raises ValueError when no function
\* has the name.
C12_TargetFunction ==
    ppc = "done" =>
        /\ target_function = "None" /\ Len(file_ast) # 1 => processed.status = "ValueError"
        /\ target_function # "None" /\ HasTarget => processed = process(<<Target>>, "None")
        /\ target_function # "None" /\ ~HasTarget => processed.status = "ValueError"

\* the texts of the clauses of one kind, in source order
TextsOf(kind, precondition_str) ==
    LET clauses == SelectSeq(precondition_str, LAMBDA clause : clause.kind = kind)
    IN  [k \in 1..Len(clauses) |-> clauses[k].text]

\* the annotation is PRECONDITION:C with C one of the four classes, then ASSUME and
\* ASSUME_HOLE clauses
NamesClass(precondition_str) ==
    /\ precondition_str # <<>>
    /\ precondition_str[1] \in {Clause("PRECONDITION", class) : class \in PreconditionClasses}

\* C13: for an annotation PRECONDITION:C with C in {ALL_DIFFER, ONE_DIFFER, INCREASING,
\* DECREASING}, the preconditions process returns are C followed by the expressions of
\* the ASSUME clauses in source order, and the hole preconditions are the expressions of
\* the ASSUME_HOLE clauses; an annotation that names none of the four classes makes
\* process raise ValueError.
C13_PreconditionsInSourceOrder ==
    ppc = "done" /\ HasTarget /\ Target.params # <<>> =>
        /\ NamesClass(Target.precondition_str) /\ processed.status = "returned" =>
              /\ processed.preconditions =
                    <<Target.precondition_str[1].text>>
                        \o TextsOf("ASSUME", Target.precondition_str)
              /\ processed.hole_preconditions =
                    TextsOf("ASSUME_HOLE", Target.precondition_str)
        /\ ~NamesClass(Target.precondition_str) => processed.status = "ValueError"

-----------------------------------------------------------------------------
(* Claims about RandomDistanceGenerator.generate *)

\* the statement that samples eta
SamplingLine(eta) ==
    CHOOSE j \in 1..Len(program) : program[j] = Sample(eta)

\* the names already defined when eta is sampled: the parameters, the names declared or
\* assigned on an earlier line, and eta
DefinedAtSampling(eta) ==
    GeneratorParameters \cup {eta} \cup
    {program[j].left : j \in {m \in 1..(SamplingLine(eta) - 1) :
                                  program[m].stmt \in {"Assign", "Sample"}}}

\* what a name was computed from at line j: the variables and array elements of its most
\* recent assignment or declaration before j
ComputedFrom(name, j) ==
    LET lines == {m \in 1..(j - 1) : program[m].stmt \in {"Assign", "Sample"}
                                       /\ program[m].left = name}
    IN  IF lines = {} THEN {}
        ELSE NodeFinder(program[CHOOSE m \in lines : \A n \in lines : n <= m].expr)

\* the transitive dependencies at line j of a set of variables and array elements
RECURSIVE DependsTransitively(_, _)
DependsTransitively(nodes, j) ==
    LET reached == nodes \cup UNION {ComputedFrom(nd.name, j) : nd \in {n \in nodes : n.k = "ID"}}
    IN  IF reached = nodes THEN nodes ELSE DependsTransitively(reached, j)

\* C14: in the template of every sample eta, every variable is not a random variable, has
\* a dynamically tracked aligned distance, is subscripted when it is an array, and names
\* only identifiers already defined when eta was sampled; every condition is the condition
\* of a branch whose generated assertion depends transitively on eta and has only
\* dependencies that were already defined when eta was sampled.
C14_TemplatesOnlyLive ==
    vpc = Len(program) =>
        \A eta \in DOMAIN self_templates :
            /\ \A variable \in self_templates[eta].variables :
                  /\ \A j \in 1..Len(program) : program[j] # Sample(variable.name)
                  /\ final_types[variable.name].aligned = "*"
                  /\ final_types[variable.name].is_array => variable.k = "ArrayRef"
                  /\ IdentifiersOf(variable) \subseteq DefinedAtSampling(eta)
            /\ \A condition \in self_templates[eta].conditions :
                  \E j \in 1..Len(program) :
                     /\ program[j] = IfAssert(condition)
                     /\ LET dependencies == DependsTransitively(NodeFinder(condition), j)
                        IN  /\ ID(eta) \in dependencies
                            /\ \A dependency \in dependencies :
                                  IdentifiersOf(dependency) \subseteq DefinedAtSampling(eta)

-----------------------------------------------------------------------------
(* Claims about main *)

\* how a finished run ended
EndedProved == run_result # <<>> /\ run_result.is_alignment
EndedValidated == final_bad_output # 0
EndedConfigurationError == raised_in \in {"syntax_check", "transform"}
EndedValidationFailed ==
    /\ run_result # <<>> /\ ~run_result.is_alignment
    /\ arguments.psi_source
    /\ raised_in = "none"
    /\ final_bad_output = 0

\* C15: the process ends with exit code 0 when the run proved the program or the
\* validator confirmed the counterexample, and with exit code 1 when the input was
\* rejected as a configuration error or the validation of the counterexample failed.
C15_ExitCodes ==
    main_pc = "exited" =>
        /\ EndedProved \/ EndedValidated => exit_code = 0
        /\ EndedConfigurationError \/ EndedValidationFailed => exit_code = 1

-----------------------------------------------------------------------------
(* Claims about the driver of Template.fill *)

\* the relation the mode requires of a cost: <= the goal in an alignment search, > the
\* goal in an input search
ModeRelation(value) ==
    IF operator = "<=" THEN value <= self_goal ELSE value > self_goal

-----------------------------------------------------------------------------
(* Claims about the four cases of core.run *)

\* the steps of run that end an alignment search with a model
AlignmentModelOutside ==
    pc = "result" /\ result # None /\ ~is_find_inputs /\ ~is_final_validate /\ pc' = "loop"
AlignmentModelFinal ==
    pc = "result" /\ result # None /\ ~is_find_inputs /\ is_final_validate /\ pc' = "loop"
\* the step that ends an alignment search outside final validation without a model
AlignmentSearchFailed ==
    pc = "result" /\ result = None /\ ~is_find_inputs /\ ~is_final_validate /\ pc' = "loop"
\* the step that starts an iteration
IterationStarts == pc = "loop" /\ pc' # "loop"

\* C17: a model of an alignment search outside final validation replaces the last
\* element of the alignments and nothing else: the length and every earlier element of
\* the alignments, the counterexamples, final_validate and jump_out stay as they are.
C17_ModelReplacesLastAlignment ==
    [][AlignmentModelOutside =>
          /\ Len(possible_alignments') = Len(possible_alignments)
          /\ Last(possible_alignments') = result
          /\ \A k \in 1..(Len(possible_alignments) - 1) :
                possible_alignments'[k] = possible_alignments[k]
          /\ UNCHANGED <<found_counterexamples, is_final_validate, is_jump_out>>]_vars

\* an alignment search outside final validation has replaced the last of several
\* alignments by a different one
C17_Witness ==
    /\ pc = "loop" /\ search_object = "alignments" /\ result # None /\ ~is_jump_out
    /\ Len(possible_alignments) > 1
    /\ Last(possible_alignments) = result
    /\ Last(concretes) \in Range(found_counterexamples)
    /\ found_counterexamples # <<>>

\* C18: a model of an alignment search in final validation is appended to the
\* alignments, the counterexamples become empty, final_validate is cleared and jump_out
\* is set; the iteration that follows searches inputs with all alignments as concretes,
\* and jump_out is cleared when that search finds a model.
C18_FinalModelAppendsAndJumpsOut ==
    /\ [][AlignmentModelFinal =>
             /\ possible_alignments' = Append(possible_alignments, result)
             /\ found_counterexamples' = <<>>
             /\ ~is_final_validate'
             /\ is_jump_out'
             /\ is_find_inputs']_vars
    /\ [][IterationStarts /\ is_jump_out =>
             /\ search_object' = "inputs"
             /\ concretes' = possible_alignments
             /\ UNCHANGED <<possible_alignments, is_jump_out>>]_vars
    /\ [][pc = "result" /\ is_jump_out /\ result # None /\ pc' = "loop" =>
             /\ ~is_jump_out'
             /\ found_counterexamples' = <<result>>]_vars

\* the input search after a final-validation model has found an input against all the
\* alignments, and jump_out is cleared
C18_Witness ==
    /\ pc = "loop" /\ search_object = "inputs" /\ result # None
    /\ Len(possible_alignments) > 1
    /\ concretes = possible_alignments
    /\ found_counterexamples = <<result>>
    /\ ~is_jump_out /\ ~is_final_validate

\* C19: after an alignment search outside final validation without a model, the next
\* iteration is again an alignment search, with final_validate set, the counterexamples
\* and alignments unchanged, a strictly larger suffix, and only the most recent
\* counterexample as concrete.
C19_FailedAlignmentSearchEscalates ==
    /\ [][AlignmentSearchFailed =>
             /\ ~is_find_inputs'
             /\ is_final_validate'
             /\ suffix' > suffix
             /\ UNCHANGED <<found_counterexamples, possible_alignments, is_jump_out>>]_vars
    /\ [][IterationStarts /\ is_final_validate =>
             /\ search_object' = "alignments"
             /\ concretes' = <<Last(found_counterexamples)>>
             /\ UNCHANGED <<found_counterexamples, possible_alignments, suffix,
                            is_final_validate>>]_vars

\* a final-validation search runs on the most recent of several counterexamples
C19_Witness ==
    /\ pc = "result" /\ search_object = "alignments" /\ is_final_validate
    /\ Len(found_counterexamples) > 1
    /\ concretes = <<Last(found_counterexamples)>>
    /\ suffix > 1000

\* C20: the first iteration searches inputs against the default alignment alone; from
\* then on an iteration searches the other object than the one before it, except that a
\* failed alignment search is followed by the alignment search of final validation;
\* every iteration takes its concretes from the lists as the previous iteration left
\* them.
C20_SearchObjectsAlternate ==
    /\ [][IterationStarts /\ iterations = 0 =>
             search_object' = "inputs" /\ concretes' = <<default_alignment>>]_vars
    /\ [][IterationStarts /\ iterations > 0 =>
             /\ search_object' = search_object <=>
                   search_object = "alignments" /\ result = None
             /\ search_object' = search_object => is_final_validate]_vars
    /\ [][IterationStarts =>
             /\ concretes' \in
                   LET all == IF search_object' = "inputs"
                              THEN possible_alignments ELSE found_counterexamples
                   IN  {all, <<Last(all)>>}
             /\ UNCHANGED <<found_counterexamples, possible_alignments>>]_vars

\* the loop has gone through inputs, alignments, inputs, a failed alignment search and
\* the alignment search of final validation
C20_Witness ==
    /\ pc = "result" /\ search_object = "alignments" /\ is_final_validate
    /\ iterations >= 4
    /\ Len(possible_alignments) = 1 /\ Last(possible_alignments) # default_alignment

-----------------------------------------------------------------------------
(* Claims about Transformer._assign *)

AssignmentVisited == tstep = "constructed" /\ tstep' = "visited"

AssignmentExecuted == tstep = "visited" /\ tstep' = "executed"

AlignedUpdateInserted(after, name, aligned) ==
    \E i \in 1..Len(after) : after[i] = Insertion(DistanceVariable("aligned", name), aligned)

C23_ShadowValueKept ==
    [][AssignmentExecuted /\ t_pc =>
        /\ Len(inserted.before) = 1
        /\ inserted.before[1].lvalue = "shadow_x"
        /\ \A mem \in {memory} :
              Eval(inserted.before[1].rvalue, mem)
                  = mem["x"] + mem["shadow_x"] - Eval(node.rvalue, mem)
        /\ memory'["x"] + memory'["shadow_x"] = memory["x"] + memory["shadow_x"]]_vars

\* x := x * y has run under a shadow-divergent pc and has changed x
C23_Witness ==
    /\ tstep = "executed"
    /\ t_pc
    /\ node.rvalue = BinaryOp("*", ID("x"), ID("y"))
    /\ Len(inserted.before) = 1
    /\ memory["x"] = 1
    /\ memory["shadow_x"] = -2

RECURSIVE EvalAligned(_, _)
\* the value of an expression in the aligned run: every variable v stands for
\* v + aligned_v
EvalAligned(e, mem) ==
    CASE e.k = "Constant" -> e.value
      [] e.k = "ID" -> mem[e.name] + mem[DistanceVariable("aligned", e.name)]
      [] e.k = "BinaryOp" ->
            CASE e.op = "+" -> EvalAligned(e.left, mem) + EvalAligned(e.right, mem)
              [] e.op = "-" -> EvalAligned(e.left, mem) - EvalAligned(e.right, mem)
              [] e.op = "*" -> EvalAligned(e.left, mem) * EvalAligned(e.right, mem)

\* C30: after x := e and the inserted aligned update, x + aligned_x is e evaluated
\* in the aligned run, where every variable v is v + aligned_v (the distance variable of
\* an untracked variable holds 0).
C30_AlignedDistanceIsTheDifference ==
    [][AssignmentExecuted =>
        memory'["x"] + memory'["aligned_x"] = EvalAligned(node.rvalue, memory)]_vars

-----------------------------------------------------------------------------
(* Claims about the assertions of Transformer.visit_If *)

IfVisited == tstep = "done" /\ node.k = "If"

\* the aligned version of the condition with the distances the branch point has
AlignedCondAtBranch == ExpressionReplacer(before_types, node.cond)

\* C22: after visit_If at loop level 0, when the condition is aligned-divergent the then-
\* branch begins with the assertion of the aligned condition and the else-branch with the
\* assertion of the negation of that same aligned condition, both with the distances of
\* the branch point whatever the branches assign; when it is not, neither branch has an
\* assertion.
C22_BranchAssertions ==
    IfVisited =>
        IF is_aligned_divergent(before_types, node.cond)
        THEN /\ inserted.true_top = {ASSERT_call(AlignedCondAtBranch, FALSE)}
             /\ inserted.false_top = {ASSERT_call(AlignedCondAtBranch, TRUE)}
        ELSE /\ inserted.true_top = {}
             /\ inserted.false_top = {}

\* what holds of the code: the then-assertion is there exactly when the else-assertion is,
\* and the then-assertion is the aligned condition of the branch point
C22_AssertionsComeInPairs ==
    IfVisited =>
        /\ (inserted.true_top = {}) <=> (inserted.false_top = {})
        /\ inserted.true_top \subseteq {ASSERT_call(AlignedCondAtBranch, FALSE)}
        /\ is_aligned_divergent(before_types, node.cond) => inserted.true_top # {}

-----------------------------------------------------------------------------
(* Claims about the ONE_DIFFER assumptions *)

\* the indexes at which the two related queries differ
Differing(distance_q) == {i \in QueryIndexes : distance_q[i] # 0}

QueryInRange(q) == \A i \in QueryIndexes : q[i] >= QueryMin /\ q[i] <= QueryMax

DistancesWithinOne(distance_q) == \A i \in QueryIndexes : distance_q[i] \in -1..1

\* C24 as stated: a path that passes the assumptions has a query in [-10,10] and an
\* aligned distance that is non-zero at exactly one index, by at most 1.
C24_ExactlyOneIndexDiffers ==
    path = "admitted" =>
        /\ QueryInRange(symbolic.query)
        /\ DistancesWithinOne(symbolic.aligned_query)
        /\ Cardinality(Differing(symbolic.aligned_query)) = 1

\* C24, amended: the assumptions admit exactly the pairs with a query in [-10,10] and an
\* aligned distance within 1 that is non-zero at no index other than CHECKDP_index, so at
\* most one index differs; a path is ended only when the pair is not such a pair or
\* CHECKDP_index is not an index that carries all of the difference.
C24_AtMostOneIndexDiffers ==
    /\ path = "admitted" =>
          /\ QueryInRange(symbolic.query)
          /\ DistancesWithinOne(symbolic.aligned_query)
          /\ Cardinality(Differing(symbolic.aligned_query)) <= 1
          /\ Differing(symbolic.aligned_query) \subseteq {symbolic.index}
    /\ path = "terminated" =>
          \/ ~QueryInRange(symbolic.query)
          \/ ~DistancesWithinOne(symbolic.aligned_query)
          \/ symbolic.index \notin QueryIndexes
          \/ ~(Differing(symbolic.aligned_query) \subseteq {symbolic.index})

\* a pair of equal queries passes the assumptions
C24_Witness ==
    /\ path = "admitted"
    /\ Differing(symbolic.aligned_query) = {}
    /\ symbolic.query[0] = QueryMax

-----------------------------------------------------------------------------
(* Claims about the done set of KLEE._async_run *)

\* C25: once asyncio.wait(FIRST_COMPLETED) has returned, the done set holds exactly one
\* task, the popped one, and every other backend is in the pending set.
C25_DoneIsOneTask ==
    kpc \notin {"idle", "launch", "wait"} =>
        /\ Cardinality(done) = 1
        /\ done = {winner}
        /\ pending = BackendSet \ {winner}

-----------------------------------------------------------------------------
(* Claims about the loop of core.run as a whole *)

\* Every input search of a phase returns an input outside the counterexamples found in
\* it, so a phase has at most NumInputs input searches, as many alignment searches, one
\* final validation and one last input search; each final validation that finds an
\* alignment leaves strictly fewer inputs above the goal under all listed alignments.
IterationBound == (NumInputs + 1) * (2 * NumInputs + 2)

Terminated == pc \in {"proved", "counterexample"}

\* C26: with finitely many inputs and alignments and an exact search, the loop of run ends
\* after a bounded number of iterations whatever models the search returns: the iteration
\* count never passes the bound, every search has an answer (a model or none) and every
\* answer a continuation, and the run stops only with PROVED or COUNTEREXAMPLE (or with
\* the error the toolchain raised).
C26_LoopTerminates ==
    /\ iterations <= IterationBound
    /\ pc = "loop" => ENABLED Search
    /\ pc = "result" =>
          ENABLED (InputFound \/ InputNone \/ AlignmentFoundFinal \/ AlignmentFound
                      \/ AlignmentNoneFinal \/ AlignmentNone)
    /\ pc = "break" => ENABLED BadOutputs
    /\ pc \notin {"loop", "result", "break"} => (Terminated \/ pc = "error")
    /\ pc = "proved" => returned = possible_alignments
    /\ pc = "counterexample" => returned = <<Last(found_counterexamples)>>

\* a run that went through a final validation with a new alignment and ended with a
\* counterexample
C26_Witness ==
    /\ pc = "counterexample"
    /\ Len(possible_alignments) >= 2
    /\ iterations >= 7

\* C27: when an iteration starts, final_validate and jump_out are not both true and
\* final_validate means that alignments are searched; an input search gets the whole
\* list of alignments; narrowed concretes are the last counterexample; and an iteration
\* that starts in final validation ends it.
C27_FinalValidateAndJumpOut ==
    /\ [](/\ pc = "loop" => ~(is_final_validate /\ is_jump_out)
          /\ pc = "loop" /\ is_final_validate => ~is_find_inputs
          /\ pc = "result" /\ search_object = "inputs" => concretes = possible_alignments
          /\ pc = "result" /\ search_object = "alignments" =>
                concretes \in {found_counterexamples, <<Last(found_counterexamples)>>}
          /\ pc = "result" /\ search_object = "alignments" /\ is_final_validate =>
                concretes = <<Last(found_counterexamples)>>)
    /\ [][pc = "result" /\ is_final_validate =>
            \/ pc' = "break"
            \/ pc' = "loop" /\ ~is_final_validate']_vars

\* the input search that jumps out of the region of the earlier alignments is about to
\* start, with the alignment the final validation found appended
C27_Witness ==
    /\ pc = "loop"
    /\ is_jump_out
    /\ is_find_inputs
    /\ ~is_final_validate
    /\ Len(possible_alignments) = 2

\* C28: the list of alignments is never empty; the counterexamples are not empty when an
\* alignment search starts and when the loop breaks; the concretes given to Template.fill
\* are not empty, and the final counterexample exists.
C28_ListsNonEmpty ==
    /\ possible_alignments # <<>>
    /\ pc = "loop" /\ ~is_find_inputs => found_counterexamples # <<>>
    /\ pc = "loop" => Concretes # <<>>
    /\ pc = "result" => concretes # <<>>
    /\ pc \in {"break", "counterexample"} => found_counterexamples # <<>>

\* an alignment search starts after the counterexamples were emptied by a final validation
\* and one new counterexample was found
C28_Witness ==
    /\ pc = "loop"
    /\ ~is_find_inputs
    /\ Len(found_counterexamples) = 1
    /\ Len(possible_alignments) >= 2

-----------------------------------------------------------------------------
(* Claims about the size of the sample array *)

\* C29: every read sample_array[sample_index] of the transformed function has
\* sample_index < loops * n + constants, the size the PostProcessor computed and the
\* driver declared, whatever loops are around the sampling.
C29_ReadsInsideSampleArray ==
    /\ ~overrun
    /\ spc \in {"running", "returned"} =>
          /\ sample_array_size = sample_array_size_loops * size + sample_array_size_constants
          /\ Samplings(loops_around, size) <= sample_array_size


====
